---- MODULE Spec2Model ----
(***************************************************************************)
(* A model of adammil.net/linq.                                            *)
(*                                                                         *)
(* The parallel operators (src/linq/parallel.go): LINQ.ParallelForEach and *)
(* LINQ.ParallelSelect, with the sequential operators they fall back to    *)
(* (LINQ.ForEach and LINQ.Select of src/linq/linq.go).  Every goroutine is *)
(* a record in a bag; one action is one step of one goroutine between two  *)
(* points at which the others can observe or disturb it.  Plain            *)
(* (non-atomic) shared variables of the code (ex, eos) are read and        *)
(* written in separate steps, so every value a racing read can return is   *)
(* returned in some behaviour.  runtime.NumCPU() returns any count up to   *)
(* MaxThreads.                                                             *)
(*                                                                         *)
(* Sequences and iterators (src/collections/sequences.go) and the lazy     *)
(* operators built on them (Where, Select, SelectMany, Concat, Skip,       *)
(* SkipWhile, Take, TakeWhile, Distinct): the IteratorFunc of each         *)
(* operator is an operator of the model on the closure's variables and the *)
(* cursor of the source's iterator; one action is one call a client makes  *)
(* (the operator itself, Iterator, Next, Current).                         *)
(*                                                                         *)
(* The queries (src/linq/linq.go, concat.go, set.go, aggregate.go): Cache, *)
(* Reverse and the Order operators, which capture their receiver in a      *)
(* slice on the first Advance; Intersect, Union and Merge; GroupBy, which  *)
(* reads its receiver at the call; Except, which reads its arguments on   *)
(* the first Advance; Single and TrySingle (firstLast.go), which return a  *)
(* value.  SpecQuery is a client that calls one of them and iterates the   *)
(* result.                                                                 *)
(*                                                                         *)
(* SpecSourceFails runs the parallel operators on a source whose own Next  *)
(* panics; SpecBurst runs ParallelSelect with more threads allowed than    *)
(* one top-up starts.                                                      *)
(*                                                                         *)
(* One behaviour of the model is one use of the library: Init picks what   *)
(* is called, the arguments, the source and the items the user's closure   *)
(* panics on.                                                              *)
(***************************************************************************)
EXTENDS Bags, FiniteSets, Integers, Sequences, TLC

\* ---------------------------------------------------------------- bounds
MaxLen == 3          \* longest source
MaxThreads == 2      \* largest thread argument and CPU count
MaxSpare == 1        \* goroutines ParallelSelect may have beyond maxThreads
MaxExtra == 1        \* Next calls on an iterator after the first false

\* ------------------------------------------------------- program constants
MaxBurst == 8        \* "don't start more than 8 new threads at once"

Nil == 0             \* the nil interface value (no panic captured)

\* The source is the array 1..n behind a genericArrayIterator: the item at
\* index k is k.  The iterator's state is its index.
Sources == {[k \in 1..n |-> k] : n \in 0..MaxLen}

\* The user's closures.  The action or selector panics on the items of
\* `fails`, with a panic value that names the item; the selector maps two
\* neighbouring items to the same result, so results can repeat.
PanicValue(item) == item
\* A source can be a sequence whose own Advance panics (a function sequence,
\* src/collections/sequences.go:283-299): the call of Next that reaches item
\* srcFail panics with AdvancePanic, and the item is gone.
AdvancePanic == -7
selector(item) == 10 + (item \div 2)

\* ------------------------------------------------------------------ state
VARIABLES
    op,          \* "foreach" | "select": the operator called
    src,         \* the source sequence s
    fails,       \* the items the user closure panics on
    oneTime,     \* the source is a one-time sequence (MakeOneTimeFunctionSequence)
    srcFail,     \* the source's Next panics on reaching this item (0: never)
    crashed,     \* the process died of a panic in a goroutine
    \* ParallelForEach
    feThreads,   \* threads
    fePC,        \* the calling goroutine's position
    feI,         \* i: index of the source iterator
    feC,         \* c: items buffered in the channel
    feCap,       \* cap(c)
    feClosed,    \* c is closed
    feWg,        \* wg: the WaitGroup counter
    feEx,        \* ex
    feG,         \* bag of goroutines started by the call
    feCalls,     \* history: items in the order action was called on them
    feDone,      \* history: items whose action returned normally
    feMode,      \* history: "unbounded" | "single" | "pool", the branch taken
    feFirst,     \* history: the first panic value captured
    feLast,      \* history: the last panic value captured
    feLate,      \* history: [pulls, hands]: items pulled and items handed
                 \*   to a goroutine while ex was already set
    feRaised,    \* the value the call panicked with (Nil: none)
    \* ParallelSelect
    psMax,       \* maxThreads
    psPC,        \* the consumer's position
    psI,         \* i: index of the source iterator
    psC,         \* c: results buffered in the channel
    psClosed,    \* c is closed
    psM,         \* m is locked
    psThreads,   \* threads
    psEos,       \* eos
    psEx,        \* ex
    psG,         \* bag of processOne goroutines
    psT,         \* consumer local: the thread count it read
    psItem,      \* consumer locals item, open: what the receive returned
    psOut,       \* history: bag of results returned by Advance
    psClaims,    \* history: bag of source items claimed by workers
    psMade,      \* history: number of results computed by selector
    psCloses,    \* history: number of close(c) calls made
    psSeq,       \* history: the results in the order Advance returned them
    psIt,        \* the iteration's state exists: s.Iterator() was called
    \* sequences and iterators
    itKind,      \* "slice" | "func": what the source is
    itDer,       \* the operator applied to the source, then the sequence built
    itN,         \* the count given to Skip or Take
    itArgs,      \* the sequences given to Concat
    itPC,        \* "start" | "built"
    itUsed,      \* the used flag of a one-time source
    itUps,       \* the cursors of the iterators obtained from the source
    itIts,       \* the iterators obtained from the sequence
    itErr,       \* the panic value of an Iterator() request that failed
    itReqs,      \* history: number of Iterator() requests
    itPre,       \* the operator the receiver was built with ("None": the source)
    itBoth,      \* the both handler given to Merge
    itBuf,       \* per call of a buffering operator: its captured items slice
    itGroups,    \* the map m of GroupByKV
    itOp,        \* history: the operator the client called
    itLeft,      \* the leftOnly handler given to Merge
    itRight,     \* the rightOnly handler given to Merge
    itRes        \* what Single or TrySingle returned or panicked with

feVars == <<feThreads, fePC, feI, feC, feCap, feClosed, feWg, feEx, feG,
            feCalls, feDone, feMode, feFirst, feLast, feLate, feRaised>>
psVars == <<psMax, psPC, psI, psC, psClosed, psM, psThreads, psEos, psEx, psG,
            psT, psItem, psOut, psClaims, psMade, psCloses, psSeq, psIt>>
inputs == <<op, src, fails, oneTime, srcFail>>
itCfg == <<itKind, itDer, itN, itArgs, itPre, itBoth, itOp, itLeft, itRight>>
itVars == <<itCfg, itPC, itUsed, itUps, itIts, itErr, itReqs, itBuf, itGroups,
           itRes>>
vars == <<inputs, crashed, feVars, psVars, itVars>>

\* ------------------------------------------------------------- bag helpers
BagOne(g) == SetToBag({g})
BagPut(B, g) == B (+) BagOne(g)
BagDrop(B, g) == B (-) BagOne(g)
BagMove(B, g, h) == BagPut(BagDrop(B, g), h)
RECURSIVE BagTimes(_, _)
BagTimes(g, n) == IF n <= 0 THEN EmptyBag ELSE BagPut(BagTimes(g, n - 1), g)
Min(a, b) == IF a < b THEN a ELSE b
Image(f) == {f[k] : k \in DOMAIN f}
NextPanics(i) == srcFail # 0 /\ i + 1 = srcFail

\* ========================================================================
\* LINQ.ParallelForEach (src/linq/parallel.go:33-86)
\* ========================================================================
\* A goroutine of the call is [kind, st, item]:
\*   kind "pool": runWorker, st "recv" (at <-c), "got" (holding an item) or
\*                "run" (inside safeAction)
\*   kind "task": process,   st "new" (started, not yet running) or "run"
FePool == [kind |-> "pool", st |-> "recv", item |-> 0]
FeRun(g, item) == [kind |-> g.kind, st |-> "run", item |-> item]
FeTask(item) == [kind |-> "task", st |-> "new", item |-> item]

\* runtime.NumCPU(): any CPU count of the machine
NumCPU == 1 .. MaxThreads

\* lines 33-61, 72-75: the dispatch on threads, up to the first loop test.
FeDispatch(threads) ==
    IF feThreads < 0
      THEN /\ fePC' = "uTest"
           /\ feMode' = "unbounded"
           /\ feThreads' = 0
           /\ UNCHANGED <<feCap, feWg, feG>>
      ELSE IF threads = 1
      THEN /\ fePC' = "sIter"
           /\ feMode' = "single"
           /\ feThreads' = threads
           /\ UNCHANGED <<feCap, feWg, feG>>
      ELSE /\ fePC' = "bTest"
           /\ feMode' = "pool"
           /\ feThreads' = threads
           /\ feCap' = threads
           /\ feWg' = feWg + threads
           /\ feG' = BagTimes(FePool, threads)
FeCall ==
    /\ op = "foreach" /\ fePC = "call"
    /\ \E cpus \in NumCPU : FeDispatch(IF feThreads = 0 THEN cpus ELSE feThreads)
    /\ UNCHANGED <<feI, feC, feClosed, feEx, feCalls, feDone, feFirst, feLast,
                   feLate, feRaised>>
    /\ UNCHANGED <<inputs, crashed, psVars, itVars>>

\* line 38: ex = e, whatever ex held
CaptureFirst(old, e) == IF old = Nil THEN e ELSE old
Capture(old, e) == e

\* safeAction, lines 35-42: the action has run on the item; a panic is
\* recovered and its value stored in ex.
safeAction(item) ==
    IF item \in fails
      THEN /\ feEx' = Capture(feEx, PanicValue(item))
           /\ feFirst' = IF feFirst = Nil THEN PanicValue(item) ELSE feFirst
           /\ feLast' = PanicValue(item)
           /\ UNCHANGED feDone
      ELSE /\ feDone' = feDone \cup {item}
           /\ UNCHANGED <<feEx, feFirst, feLast>>

\* line 50/76, left operand: the loop test reads ex.
FeTestBlind(here, pull, out) ==
    /\ op = "foreach" /\ fePC = here
    /\ fePC' = pull
    /\ UNCHANGED <<feThreads, feI, feC, feCap, feClosed, feWg, feEx, feG,
                   feCalls, feDone, feMode, feFirst, feLast, feLate, feRaised>>
    /\ UNCHANGED <<inputs, crashed, psVars, itVars>>
FeTest(here, pull, out) ==
    /\ op = "foreach" /\ fePC = here
    /\ fePC' = IF feEx = Nil THEN pull ELSE out
    /\ UNCHANGED <<feThreads, feI, feC, feCap, feClosed, feWg, feEx, feG,
                   feCalls, feDone, feMode, feFirst, feLast, feLate, feRaised>>
    /\ UNCHANGED <<inputs, crashed, psVars, itVars>>

\* line 50/76, right operand: i.Next() of the genericArrayIterator
\* (src/collections/sequences.go:346-353).
FeNext(here, body, out) ==
    /\ op = "foreach" /\ fePC = here
    /\ IF NextPanics(feI)
         \* the panic of i.Next() leaves ParallelForEach (or ForEach): no
         \* deferred function of the caller's goroutine recovers it
         THEN /\ feI' = feI + 1
              /\ fePC' = "panicked"
              /\ feRaised' = AdvancePanic
              /\ UNCHANGED feLate
         ELSE IF feI < Len(src)
         THEN /\ feI' = feI + 1
              /\ fePC' = body
              /\ feLate' = IF feEx # Nil
                             THEN [feLate EXCEPT !.pulls = @ + 1] ELSE feLate
              /\ UNCHANGED feRaised
         ELSE /\ fePC' = out
              /\ UNCHANGED <<feI, feLate, feRaised>>
    /\ UNCHANGED <<feThreads, feC, feCap, feClosed, feWg, feEx, feG,
                   feCalls, feDone, feMode, feFirst, feLast>>
    /\ UNCHANGED <<inputs, crashed, psVars, itVars>>

\* the item at hand is handed to a goroutine
Handed == IF feEx # Nil THEN [feLate EXCEPT !.hands = @ + 1] ELSE feLate

\* threads < 0, lines 50-53
FeUTest == FeTest("uTest", "uNext", "wait")
FeUNext == FeNext("uNext", "uGo", "wait")
FeUGo ==
    /\ op = "foreach" /\ fePC = "uGo"
    /\ feWg' = feWg + 1
    /\ feG' = BagPut(feG, FeTask(src[feI]))
    /\ feLate' = Handed
    /\ feThreads' = feThreads + 1
    /\ fePC' = "uTest"
    /\ UNCHANGED <<feI, feC, feCap, feClosed, feEx, feCalls, feDone, feMode,
                   feFirst, feLast, feRaised>>
    /\ UNCHANGED <<inputs, crashed, psVars, itVars>>

\* process, lines 46-47: the goroutine starts running and calls the action
FeTaskStart ==
    /\ op = "foreach"
    /\ \E g \in BagToSet(feG) :
         /\ g.kind = "task" /\ g.st = "new"
         /\ feG' = BagMove(feG, g, FeRun(g, g.item))
         /\ feCalls' = Append(feCalls, g.item)
    /\ UNCHANGED <<feThreads, fePC, feI, feC, feCap, feClosed, feWg, feEx,
                   feDone, feMode, feFirst, feLast, feLate, feRaised>>
    /\ UNCHANGED <<inputs, crashed, psVars, itVars>>

\* process, lines 47-48: safeAction returns, then wg.Done()
FeTaskEnd ==
    /\ op = "foreach"
    /\ \E g \in BagToSet(feG) :
         /\ g.kind = "task" /\ g.st = "run"
         /\ safeAction(g.item)
         /\ feG' = BagDrop(feG, g)
         /\ feWg' = feWg - 1
    /\ UNCHANGED <<feThreads, fePC, feI, feC, feCap, feClosed, feCalls, feMode,
                   feLate, feRaised>>
    /\ UNCHANGED <<inputs, crashed, psVars, itVars>>

\* line 77: c <- i.Current() blocks while the channel is full
AlwaysRoom == TRUE
HasRoom == Len(feC) < feCap

\* threads > 1, lines 76-79
FeBTest == FeTest("bTest", "bNext", "close")
FeBNext == FeNext("bNext", "bSend", "close")
FeBSend ==
    /\ op = "foreach" /\ fePC = "bSend"
    /\ HasRoom
    /\ feC' = Append(feC, src[feI])
    /\ feLate' = Handed
    /\ fePC' = "bTest"
    /\ UNCHANGED <<feThreads, feI, feCap, feClosed, feWg, feEx, feG,
                   feCalls, feDone, feMode, feFirst, feLast, feRaised>>
    /\ UNCHANGED <<inputs, crashed, psVars, itVars>>
\* line 79: close(c) after the last send
SkipCloseC == FALSE
CloseC == TRUE
FeClose ==
    /\ op = "foreach" /\ fePC = "close"
    /\ feClosed' = CloseC
    /\ fePC' = "wait"
    /\ UNCHANGED <<feThreads, feI, feC, feCap, feWg, feEx, feG,
                   feCalls, feDone, feMode, feFirst, feLast, feLate, feRaised>>
    /\ UNCHANGED <<inputs, crashed, psVars, itVars>>

\* runWorker, line 64: an item is received from the channel
FeWorkerRecv ==
    /\ op = "foreach"
    /\ \E g \in BagToSet(feG) :
         /\ g.kind = "pool" /\ g.st = "recv"
         /\ feC # <<>>
         /\ feC' = Tail(feC)
         /\ feG' = BagMove(feG, g, [g EXCEPT !.st = "got", !.item = Head(feC)])
    /\ UNCHANGED <<feThreads, fePC, feI, feCap, feClosed, feWg, feEx, feCalls,
                   feDone, feMode, feFirst, feLast, feLate, feRaised>>
    /\ UNCHANGED <<inputs, crashed, psVars, itVars>>

\* runWorker, line 65: the worker calls the action on the item it received
FeWorkerCall ==
    /\ op = "foreach"
    /\ \E g \in BagToSet(feG) :
         /\ g.kind = "pool" /\ g.st = "got"
         /\ feG' = BagMove(feG, g, FeRun(g, g.item))
         /\ feCalls' = Append(feCalls, g.item)
    /\ UNCHANGED <<feThreads, fePC, feI, feC, feCap, feClosed, feWg, feEx,
                   feDone, feMode, feFirst, feLast, feLate, feRaised>>
    /\ UNCHANGED <<inputs, crashed, psVars, itVars>>

\* runWorker, line 65: safeAction returns and the worker loops
FeWorkerEnd ==
    /\ op = "foreach"
    /\ \E g \in BagToSet(feG) :
         /\ g.kind = "pool" /\ g.st = "run"
         /\ safeAction(g.item)
         /\ feG' = BagMove(feG, g, FePool)
    /\ UNCHANGED <<feThreads, fePC, feI, feC, feCap, feClosed, feWg, feCalls,
                   feMode, feLate, feRaised>>
    /\ UNCHANGED <<inputs, crashed, psVars, itVars>>

\* line 64: a receive reports ok = false once c is closed and drained
ClosedOnly == feClosed
ClosedAndDrained == feC = <<>> /\ feClosed

\* runWorker, lines 66-70: the worker leaves its loop; wg.Done()
FeWorkerExit ==
    /\ op = "foreach"
    /\ \E g \in BagToSet(feG) :
         /\ g.kind = "pool" /\ g.st = "recv"
         /\ ClosedAndDrained
         /\ feG' = BagDrop(feG, g)
         /\ feWg' = feWg - 1
    /\ UNCHANGED <<feThreads, fePC, feI, feC, feCap, feClosed, feEx,
                   feCalls, feDone, feMode, feFirst, feLast, feLate, feRaised>>
    /\ UNCHANGED <<inputs, crashed, psVars, itVars>>

\* line 81: wg.Wait() returns when the counter is zero
NoWait == TRUE
WaitDone == feWg = 0

\* lines 81-85: after the wait, ex decides between panic(ex) and return s
FeWait ==
    /\ op = "foreach" /\ fePC = "wait"
    /\ WaitDone
    /\ IF feEx # Nil
         THEN fePC' = "panicked" /\ feRaised' = feEx
         ELSE fePC' = "returned" /\ feRaised' = feRaised
    /\ UNCHANGED <<feThreads, feI, feC, feCap, feClosed, feWg, feEx, feG,
                   feCalls, feDone, feMode, feFirst, feLast, feLate>>
    /\ UNCHANGED <<inputs, crashed, psVars, itVars>>

\* MakeOneTimeFunctionSequence (src/collections/sequences.go:81-91): the
\* used flag of a one-time source is set by the first s.Iterator(), which
\* ParallelForEach calls at line 44 whatever the value of threads.
AlreadyIterated == -1
FeUsed == fePC # "call"

\* threads = 1: LINQ.ForEach (src/linq/linq.go:153-158) on the caller's
\* thread.  It starts with its own s.Iterator() (line 154), which panics with
\* "sequence already iterated" on a one-time source that is used.
FeSIter ==
    /\ op = "foreach" /\ fePC = "sIter"
    /\ IF oneTime /\ FeUsed
         THEN fePC' = "panicked" /\ feRaised' = AlreadyIterated
         ELSE fePC' = "sNext" /\ UNCHANGED feRaised
    /\ UNCHANGED <<feThreads, feI, feC, feCap, feClosed, feWg, feEx, feG,
                   feCalls, feDone, feMode, feFirst, feLast, feLate>>
    /\ UNCHANGED <<inputs, crashed, psVars, itVars>>
FeSNext == FeNext("sNext", "sAct", "returned")
FeSAct ==
    /\ op = "foreach" /\ fePC = "sAct"
    /\ feCalls' = Append(feCalls, src[feI])
    /\ IF src[feI] \in fails
         THEN /\ fePC' = "panicked"           \* the panic leaves ForEach
              /\ feRaised' = PanicValue(src[feI])
              /\ UNCHANGED feDone
         ELSE /\ fePC' = "sNext"
              /\ feDone' = feDone \cup {src[feI]}
              /\ UNCHANGED feRaised
    /\ UNCHANGED <<feThreads, feI, feC, feCap, feClosed, feWg, feEx, feG,
                   feMode, feFirst, feLast, feLate>>
    /\ UNCHANGED <<inputs, crashed, psVars, itVars>>

FeNextStep ==
    \/ FeCall
    \/ FeUTest \/ FeUNext \/ FeUGo \/ FeTaskStart \/ FeTaskEnd
    \/ FeBTest \/ FeBNext \/ FeBSend \/ FeClose
    \/ FeWorkerRecv \/ FeWorkerCall \/ FeWorkerEnd \/ FeWorkerExit
    \/ FeWait
    \/ FeSIter \/ FeSNext \/ FeSAct

FeInit ==
    /\ fePC = "call" /\ feI = 0 /\ feC = <<>> /\ feCap = 0 /\ feClosed = FALSE
    /\ feWg = 0 /\ feEx = Nil /\ feG = EmptyBag
    /\ feCalls = <<>> /\ feDone = {} /\ feMode = ""
    /\ feFirst = Nil /\ feLast = Nil /\ feLate = [pulls |-> 0, hands |-> 0]
    /\ feRaised = Nil

FeIdle ==
    /\ feThreads = 0 /\ FeInit

\* ========================================================================
\* LINQ.ParallelSelect (src/linq/parallel.go:97-180)
\* ========================================================================
\* A processOne goroutine is [st, item, ok]:
\*   "new"   started, about to m.Lock()                          (line 110)
\*   "next"  holds m, inside i.Next() / i.Current()          (lines 120-121)
\*   "sel"   m released, inside selector(item)                    (line 124)
\*   "send"  at c <- item, item being the result                  (line 131)
\*   "dec"   at atomic.AddInt32(&threads, -1), ok as returned     (line 133)
\*   "eos"   at eos = true                                        (line 134)
\*   "close" at close(c)                                          (line 135)
PsG(st, item, ok) == [st |-> st, item |-> item, ok |-> ok]
PsNew == PsG("new", 0, FALSE)
PsLive == BagCardinality(psG)
NoItem == [item |-> 0, open |-> FALSE]

\* lines 98-107: the call.  A negative maxThreads panics; otherwise a lazy
\* sequence is returned, and nothing of the source has been touched.
PsDispatchLenient(maxThreads) ==
    /\ psPC' = "built"
    /\ psMax' = IF maxThreads < 0 THEN MaxThreads ELSE maxThreads
PsDispatch(maxThreads) ==
    /\ psPC' = IF maxThreads < 0 THEN "invalid"
               ELSE IF maxThreads = 1 THEN "seqBuilt" ELSE "built"
    /\ psMax' = maxThreads
PsCall ==
    /\ op = "select" /\ psPC = "call"
    /\ \E cpus \in NumCPU : PsDispatch(IF psMax = 0 THEN cpus ELSE psMax)
    /\ UNCHANGED <<psI, psC, psClosed, psM, psThreads, psEos, psEx, psG,
                   psT, psItem, psOut, psSeq, psClaims, psMade, psCloses>>
    /\ UNCHANGED <<inputs, crashed, feVars, psIt, itVars>>

\* functionSequence.Iterator (src/collections/sequences.go:278-280) calls the
\* sequence function: line 108 here, src/linq/linq.go:261 for Select.  The
\* source's iterator is obtained and the iteration's state made.
PsIterator ==
    /\ op = "select" /\ psPC \in {"built", "seqBuilt"}
    /\ psIt' = TRUE
    /\ psPC' = IF psPC = "seqBuilt" THEN "seq" ELSE "idle"
    /\ UNCHANGED <<psMax, psI, psC, psClosed, psM, psThreads, psEos, psEx, psG,
                   psT, psItem, psOut, psSeq, psClaims, psMade, psCloses>>
    /\ UNCHANGED <<inputs, crashed, feVars, itVars>>

\* maxThreads = 1: one Advance of LINQ.Select (src/linq/linq.go:259-269)
PsSeqAdvance ==
    /\ op = "select" /\ psPC = "seq"
    /\ IF NextPanics(psI)
         THEN /\ psI' = psI + 1
              /\ psPC' = "raised"
              /\ psEx' = AdvancePanic
              /\ UNCHANGED <<psClaims, psOut, psSeq, psMade>>
         ELSE IF psI < Len(src)
         THEN /\ psI' = psI + 1
              /\ psClaims' = BagPut(psClaims, src[psI + 1])
              /\ IF src[psI + 1] \in fails
                   THEN /\ psPC' = "raised"
                        /\ psEx' = PanicValue(src[psI + 1])
                        /\ UNCHANGED <<psOut, psSeq, psMade>>
                   ELSE /\ psPC' = "seq"
                        /\ psOut' = BagPut(psOut, selector(src[psI + 1]))
                        /\ psSeq' = Append(psSeq, selector(src[psI + 1]))
                        /\ psMade' = psMade + 1
                        /\ UNCHANGED psEx
         ELSE /\ psPC' = "ended"
              /\ UNCHANGED <<psI, psClaims, psEx, psOut, psSeq, psMade>>
    /\ UNCHANGED <<psMax, psC, psClosed, psM, psThreads, psEos, psG, psT,
                   psItem, psCloses>>
    /\ UNCHANGED <<inputs, crashed, feVars, psIt, itVars>>

\* ------------------------------------------------------------ the workers
\* readItem, line 110: m.Lock() is granted only while m is free
Unguarded == TRUE
Lockable == ~psM
PsLock ==
    /\ op = "select"
    /\ \E g \in BagToSet(psG) :
         /\ g.st = "new"
         /\ Lockable
         /\ psM' = TRUE
         /\ psG' = BagMove(psG, g, PsG("next", 0, FALSE))
    /\ UNCHANGED <<psMax, psPC, psI, psC, psClosed, psThreads, psEos, psEx,
                   psT, psItem, psOut, psSeq, psClaims, psMade, psCloses>>
    /\ UNCHANGED <<inputs, crashed, feVars, psIt, itVars>>

\* readItem, lines 120-123 and 126 with the deferred function of 112-119:
\* i.Next(); on true i.Current() and m.Unlock(); on false the deferred
\* function unlocks and readItem returns nil, false; when i.Next() panics
\* the deferred function unlocks, stores the value in ex, and readItem
\* returns nil, false.
StillLocked == TRUE
DeferredUnlock == FALSE
PsPull ==
    /\ op = "select"
    /\ \E g \in BagToSet(psG) :
         /\ g.st = "next"
         /\ IF NextPanics(psI)
              THEN /\ psI' = psI + 1
                   /\ psM' = DeferredUnlock
                   /\ psEx' = AdvancePanic
                   /\ psG' = BagMove(psG, g, PsG("dec", 0, FALSE))
                   /\ UNCHANGED psClaims
              ELSE IF psI < Len(src)
              THEN /\ psI' = psI + 1
                   /\ psM' = FALSE
                   /\ psClaims' = BagPut(psClaims, src[psI + 1])
                   /\ psG' = BagMove(psG, g, PsG("sel", src[psI + 1], FALSE))
                   /\ UNCHANGED psEx
              ELSE /\ psM' = DeferredUnlock
                   /\ psG' = BagMove(psG, g, PsG("dec", 0, FALSE))
                   /\ UNCHANGED <<psI, psClaims, psEx>>
    /\ UNCHANGED <<psMax, psPC, psC, psClosed, psThreads, psEos,
                   psT, psItem, psOut, psSeq, psMade, psCloses>>
    /\ UNCHANGED <<inputs, crashed, feVars, psIt, itVars>>

\* readItem, line 124 with the deferred recover of 116-118: the selector
\* returns a result, or panics and the value is stored in ex.
PsSelector ==
    /\ op = "select"
    /\ \E g \in BagToSet(psG) :
         /\ g.st = "sel"
         /\ IF g.item \in fails
              THEN /\ psEx' = PanicValue(g.item)
                   /\ psG' = BagMove(psG, g, PsG("dec", 0, FALSE))
                   /\ UNCHANGED psMade
              ELSE /\ psG' = BagMove(psG, g, PsG("send", selector(g.item), TRUE))
                   /\ psMade' = psMade + 1
                   /\ UNCHANGED psEx
    /\ UNCHANGED <<psMax, psPC, psI, psC, psClosed, psM, psThreads, psEos,
                   psT, psItem, psOut, psSeq, psClaims, psCloses>>
    /\ UNCHANGED <<inputs, crashed, feVars, psIt, itVars>>

\* processOne, line 131: c <- item.  A send on a closed channel panics in
\* the goroutine, which ends the process; a send on a full channel blocks.
PsSend ==
    /\ op = "select"
    /\ \E g \in BagToSet(psG) :
         /\ g.st = "send"
         /\ IF psClosed
              THEN /\ crashed' = TRUE
                   /\ UNCHANGED <<psC, psG>>
              ELSE /\ Len(psC) < psMax
                   /\ psC' = Append(psC, g.item)
                   /\ psG' = BagMove(psG, g, PsG("dec", 0, TRUE))
                   /\ UNCHANGED crashed
    /\ UNCHANGED <<psMax, psPC, psI, psClosed, psM, psThreads, psEos, psEx,
                   psT, psItem, psOut, psSeq, psClaims, psMade, psCloses>>
    /\ UNCHANGED <<inputs, feVars, psIt, itVars>>

\* processOne, line 133: the worker leaves the count; the last one out that
\* got no item goes on to close the channel.
LastOutAny(g) == psThreads - 1 = 0
LastOut(g) == psThreads - 1 = 0 /\ ~g.ok
PsDec ==
    /\ op = "select"
    /\ \E g \in BagToSet(psG) :
         /\ g.st = "dec"
         /\ psThreads' = psThreads - 1
         /\ psG' = IF LastOut(g)
                     THEN BagMove(psG, g, PsG("eos", 0, FALSE))
                     ELSE BagDrop(psG, g)
    /\ UNCHANGED <<psMax, psPC, psI, psC, psClosed, psM, psEos, psEx,
                   psT, psItem, psOut, psSeq, psClaims, psMade, psCloses>>
    /\ UNCHANGED <<inputs, crashed, feVars, psIt, itVars>>

\* processOne, line 134: eos = true
PsEosSet ==
    /\ op = "select"
    /\ \E g \in BagToSet(psG) :
         /\ g.st = "eos"
         /\ psEos' = TRUE
         /\ psG' = BagMove(psG, g, PsG("close", 0, FALSE))
    /\ UNCHANGED <<psMax, psPC, psI, psC, psClosed, psM, psThreads, psEx,
                   psT, psItem, psOut, psSeq, psClaims, psMade, psCloses>>
    /\ UNCHANGED <<inputs, crashed, feVars, psIt, itVars>>

\* processOne, line 135: close(c).  Closing a closed channel panics in the
\* goroutine, which ends the process.
PsClose ==
    /\ op = "select"
    /\ \E g \in BagToSet(psG) :
         /\ g.st = "close"
         /\ psCloses' = psCloses + 1
         /\ psG' = BagDrop(psG, g)
         /\ IF psClosed
              THEN crashed' = TRUE /\ UNCHANGED psClosed
              ELSE psClosed' = TRUE /\ UNCHANGED crashed
    /\ UNCHANGED <<psMax, psPC, psI, psC, psM, psThreads, psEos, psEx,
                   psT, psItem, psOut, psSeq, psClaims, psMade>>
    /\ UNCHANGED <<inputs, feVars, psIt, itVars>>

\* ----------------------------------------------------------- the consumer
\* One Advance of the returned sequence is one call of the closure of lines
\* 138-178.  The model keeps at most psMax + MaxSpare goroutines alive: a
\* launch that would exceed it waits for a goroutine to exit.
Spawn(n) ==
    /\ PsLive + n <= psMax + MaxSpare
    /\ psThreads' = psThreads + n
    /\ psG' = psG (+) BagTimes(PsNew, n)

\* line 139: Advance is called and reads eos
PsAdvance ==
    /\ op = "select" /\ psPC = "idle"
    /\ psPC' = IF ~psEos THEN "t1" ELSE "select"
    /\ UNCHANGED <<psMax, psI, psC, psClosed, psM, psThreads, psEos, psEx, psG,
                   psT, psItem, psOut, psSeq, psClaims, psMade, psCloses>>
    /\ UNCHANGED <<inputs, crashed, feVars, psIt, itVars>>

\* line 147, first operand: atomic.LoadInt32(&threads)
PsLoad(here, there) ==
    /\ op = "select" /\ psPC = here
    /\ psT' = psThreads
    /\ psPC' = there
    /\ UNCHANGED <<psMax, psI, psC, psClosed, psM, psThreads, psEos, psEx, psG,
                   psItem, psOut, psSeq, psClaims, psMade, psCloses>>
    /\ UNCHANGED <<inputs, crashed, feVars, psIt, itVars>>
PsTopLoad == PsLoad("t1", "t2")

\* lines 147-155: len(c) is read, the slack computed and the workers started
AvailableNoBuffer == psMax - psT
Available == psMax - psT - Len(psC)
\* lines 148-150: "don't start more than 8 new threads at once"
AllAtOnce(available) == available
Capped(available) == IF available > MaxBurst THEN MaxBurst ELSE available
PsTopUp ==
    /\ op = "select" /\ psPC = "t2"
    /\ IF Available > 0
         THEN Spawn(Capped(Available))
         ELSE UNCHANGED <<psThreads, psG>>
    /\ psPC' = "select"
    /\ psT' = 0
    /\ UNCHANGED <<psMax, psI, psC, psClosed, psM, psEos, psEx,
                   psItem, psOut, psSeq, psClaims, psMade, psCloses>>
    /\ UNCHANGED <<inputs, crashed, feVars, psIt, itVars>>

\* lines 160-162: the select; a buffered result or the closed channel is
\* received, otherwise the default case runs.
PsSelect ==
    /\ op = "select" /\ psPC = "select"
    /\ IF psC # <<>>
         THEN /\ psItem' = [item |-> Head(psC), open |-> TRUE]
              /\ psC' = Tail(psC)
              /\ psPC' = "chk"
         ELSE IF psClosed
         THEN /\ psItem' = NoItem
              /\ psPC' = "chk"
              /\ UNCHANGED psC
         ELSE /\ psPC' = "d1"
              /\ UNCHANGED <<psItem, psC>>
    /\ UNCHANGED <<psMax, psI, psClosed, psM, psThreads, psEos, psEx, psG,
                   psT, psOut, psSeq, psClaims, psMade, psCloses>>
    /\ UNCHANGED <<inputs, crashed, feVars, psIt, itVars>>

\* line 163: threads is loaded, then len(c) read and the sum compared
PsDefLoad == PsLoad("d1", "d2")
AtCapacityNoBuffer == psT >= psMax
AtCapacity == psT + Len(psC) >= psMax
PsDefault ==
    /\ op = "select" /\ psPC = "d2"
    /\ psPC' = IF AtCapacity THEN "block" ELSE "d3"
    /\ psT' = 0
    /\ UNCHANGED <<psMax, psI, psC, psClosed, psM, psThreads, psEos, psEx, psG,
                   psItem, psOut, psSeq, psClaims, psMade, psCloses>>
    /\ UNCHANGED <<inputs, crashed, feVars, psIt, itVars>>

\* line 164: the blocking receive
PsBlock ==
    /\ op = "select" /\ psPC = "block"
    /\ psC # <<>> \/ psClosed
    /\ IF psC # <<>>
         THEN /\ psItem' = [item |-> Head(psC), open |-> TRUE]
              /\ psC' = Tail(psC)
         ELSE /\ psItem' = NoItem
              /\ UNCHANGED psC
    /\ psPC' = "chk"
    /\ UNCHANGED <<psMax, psI, psClosed, psM, psThreads, psEos, psEx, psG,
                   psT, psOut, psSeq, psClaims, psMade, psCloses>>
    /\ UNCHANGED <<inputs, crashed, feVars, psIt, itVars>>

\* lines 166-170: eos is read; one more worker is started unless it is set
PsLaunch ==
    /\ op = "select" /\ psPC = "d3"
    /\ IF ~psEos
         THEN Spawn(1)
         ELSE UNCHANGED <<psThreads, psG>>
    /\ psPC' = "select"
    /\ UNCHANGED <<psMax, psI, psC, psClosed, psM, psEos, psEx,
                   psT, psItem, psOut, psSeq, psClaims, psMade, psCloses>>
    /\ UNCHANGED <<inputs, crashed, feVars, psIt, itVars>>

\* lines 173-176: ex is read; Advance panics with it, or returns item, open
PsReturn ==
    /\ op = "select" /\ psPC = "chk"
    /\ IF ~psItem.open /\ psEx # Nil
         THEN psPC' = "raised" /\ UNCHANGED <<psOut, psSeq>>
         ELSE IF psItem.open
         THEN /\ psPC' = "idle"
              /\ psOut' = BagPut(psOut, psItem.item)
              /\ psSeq' = Append(psSeq, psItem.item)
         ELSE psPC' = "ended" /\ UNCHANGED <<psOut, psSeq>>
    /\ psItem' = NoItem
    /\ UNCHANGED <<psMax, psI, psC, psClosed, psM, psThreads, psEos, psEx, psG,
                   psT, psClaims, psMade, psCloses>>
    /\ UNCHANGED <<inputs, crashed, feVars, psIt, itVars>>

PsNextStep ==
    \/ PsCall \/ PsIterator \/ PsSeqAdvance
    \/ PsLock \/ PsPull \/ PsSelector \/ PsSend \/ PsDec \/ PsEosSet \/ PsClose
    \/ PsAdvance \/ PsTopLoad \/ PsTopUp \/ PsSelect \/ PsDefLoad \/ PsDefault
    \/ PsBlock \/ PsLaunch \/ PsReturn

PsInit ==
    /\ psPC = "call" /\ psI = 0 /\ psC = <<>> /\ psClosed = FALSE /\ psM = FALSE
    /\ psThreads = 0 /\ psEos = FALSE /\ psEx = Nil /\ psG = EmptyBag
    /\ psT = 0 /\ psItem = NoItem
    /\ psOut = EmptyBag /\ psClaims = EmptyBag /\ psMade = 0 /\ psCloses = 0
    /\ psSeq = <<>> /\ psIt = FALSE

PsIdle ==
    /\ psMax = 0 /\ PsInit

\* ========================================================================
\* Sequences and iterators (src/collections/sequences.go), and the lazy
\* operators of LINQ built on them (src/linq/linq.go, skipTake.go,
\* concat.go, set.go)
\* ========================================================================
\* A client builds one sequence on the source, then requests iterators from
\* it and calls Next and Current on them in any order.  The source holds
\* the items of src and is a slice (tIterator, genericArrayIterator), a
\* function sequence (MakeFunctionSequence) or a one-time function sequence
\* (MakeOneTimeFunctionSequence).  A cursor is the number of items an
\* iterator of the source has passed: Go's index + 1 for a slice, the
\* counter of the closure for a function.

\* the values a panic carries, and Current not called since the last Next
OutsideSequence == -2
IndexOutOfRange == -3
MapIterOutside == -4
NotCalled == Nil

Items == {1, 2}
ItSources == UNION {[1..n -> Items] : n \in 0..MaxLen}
Iterators == {1, 2}
Operators ==
    {"None", "Where", "Select", "SelectMany", "Concat", "Skip", "SkipWhile",
     "Take", "TakeWhile", "Distinct"}

\* the user's closures: a predicate, and a selector to sequences whose
\* result may be nil
pred(item) == item = 1
manySelector(item) ==
    IF item = 1 THEN [nil |-> TRUE, seq |-> <<>>]
    ELSE [nil |-> FALSE, seq |-> <<20 + item, 30 + item>>]
\* the argument lists given to Concat
ConcatArgs == {<<>>, << <<>>, <<3>> >>, << <<3, 4>> >>}

\* i.Next() and, if it returned true, i.Current(), on an iterator over s
\* (src/collections/zz_generated.T.go:57-68, sequences.go:342-353)
PullFrom(s, c) ==
    IF c < Len(s) THEN [c |-> c + 1, ok |-> TRUE, item |-> s[c + 1]]
    ELSE [c |-> c, ok |-> FALSE, item |-> Nil]

\* src/collections/sequences.go:211-222: the loop of ToSlice over an
\* iterator that yields the items of s
RECURSIVE ToSliceFrom(_, _, _)
ToSliceFrom(s, c, items) ==
    LET p == PullFrom(s, c)
    IN  IF p.ok THEN ToSliceFrom(s, p.c, Append(items, p.item)) ELSE items
ToSlice(s) == ToSliceFrom(s, 0, <<>>)

\* src/linq/set.go:117-123; a set is the set of its keys
toSet(s) == Image(ToSlice(s))

\* the user's comparison and selector functions: GenericLessThan on
\* integers, a comparison under which 2 and 3 are equivalent, the key and
\* the value of an item
GenericLessThan(x, y) == x < y
keySelector(item) == item \div 2
valueSelector(item) == 20 + item
lessByKey(x, y) == keySelector(x) < keySelector(y)

\* src/linq/linq.go:236-256: the loop that reverses items in place
RECURSIVE ReverseFrom(_, _)
ReverseFrom(items, i) ==
    LET e == Len(items) - 1
        mid == Len(items) \div 2
    IN  IF i < mid
          THEN ReverseFrom([items EXCEPT ![i + 1] = items[e - i + 1],
                                         ![e - i + 1] = items[i + 1]], i + 1)
          ELSE items

\* src/linq/concat.go:276-291: orderData.Less and orderData.Swap, indexes
\* from 0; sort.Reverse(sorter) calls Less with its arguments exchanged
OrderP(der) == der \in {"OrderP", "OrderDescendingP"}
OrderDescending(der) == der \in {"OrderDescending", "OrderDescendingP"}
cmp(der, x, y) == IF OrderP(der) THEN lessByKey(x, y) ELSE GenericLessThan(x, y)
LessForward(der, items, ai, bi) == cmp(der, items[ai + 1], items[bi + 1])
Less(der, items, ai, bi) ==
    IF OrderDescending(der) THEN cmp(der, items[bi + 1], items[ai + 1])
    ELSE cmp(der, items[ai + 1], items[bi + 1])
Swap(items, ai, bi) ==
    [items EXCEPT ![ai + 1] = items[bi + 1], ![bi + 1] = items[ai + 1]]

\* sort.Sort(sorter) (src/linq/concat.go:141-146).  On fewer than 12 items
\* sort.Sort is an insertion sort:
\*   for i := 1; i < n; i++ { for j := i; j > 0 && Less(j, j-1); j-- { Swap(j, j-1) } }
RECURSIVE SortInner(_, _, _)
SortInner(der, items, j) ==
    IF j > 0 /\ Less(der, items, j, j - 1)
      THEN SortInner(der, Swap(items, j, j - 1), j - 1)
      ELSE items
RECURSIVE SortFrom(_, _, _)
SortFrom(der, items, i) ==
    IF i < Len(items) THEN SortFrom(der, SortInner(der, items, i), i + 1)
    ELSE items
Sort(der, items) == SortFrom(der, items, 1)

\* what ToSlice returns for Distinct() of s (src/linq/set.go:26-39)
RECURSIVE DistinctFrom(_, _, _, _)
DistinctFrom(s, c, set, items) ==
    LET p == PullFrom(s, c)
    IN  IF ~p.ok THEN items
        ELSE IF p.item \notin set
        THEN DistinctFrom(s, p.c, set \cup {p.item}, Append(items, p.item))
        ELSE DistinctFrom(s, p.c, set, items)
DistinctSlice(s) == DistinctFrom(s, 0, {}, <<>>)

\* what ToSlice returns for Concat(args...) of s (src/linq/concat.go:34-71)
RECURSIVE ConcatFrom(_, _, _)
ConcatFrom(args, index, items) ==
    IF index >= Len(args) THEN items
    ELSE ConcatFrom(args, index + 1, items \o ToSlice(args[index + 1]))
ConcatSlice(s, args) == ConcatFrom(args, 0, ToSlice(s))

\* the operators that capture the receiver's items in a slice on the first
\* Advance, and the slice they capture (src/linq/linq.go:94-111, 236-256,
\* src/linq/concat.go:136-161)
Orders == {"Order", "OrderDescending", "OrderP", "OrderDescendingP"}
Buffering == {"Cache", "Reverse"} \cup Orders
Captured(der, s) ==
    IF der = "Cache" THEN ToSlice(s)
    \* src/linq/set.go:47-50, 56: the items toSet(except) reads
    ELSE IF der = "Except" THEN ConcatSlice(itArgs[1], Tail(itArgs))
    ELSE IF der = "Reverse" THEN ReverseFrom(ToSlice(s), 0)
    ELSE Sort(der, ToSlice(s))

\* the items of the receiver, the sequence the operator is called on: the
\* source, or a sequence built on it by an earlier call
Receiver(pre) ==
    CASE pre = "None" -> src
      [] pre = "Distinct" -> DistinctSlice(src)
      [] pre = "Concat" -> ConcatSlice(src, itArgs)
      [] pre \in Orders -> Captured(pre, src)
\* Union (src/linq/set.go:95-101) calls Distinct on s.Concat(sequences...)
Upstream ==
    IF itDer = "Union" THEN ConcatSlice(Receiver(itPre), itArgs)
    ELSE Receiver(itPre)
Pull(c) == PullFrom(Upstream, c)

\* what an IteratorFunc returns: (item, true) or (nil, false), with the
\* state a of its closure and the cursor c of its upstream iterator
Yield(a, c, item) == [a |-> a, c |-> c, item |-> item, ok |-> TRUE]
Stop(a, c) == [a |-> a, c |-> c, item |-> Nil, ok |-> FALSE]
\* history kept in a: Next calls made on the upstream, user closures called
Pulled(a) == [a EXCEPT !.ups = @ + 1]
Called(a) == [a EXCEPT !.calls = @ + 1]

Unfiltered(a, c) ==
    LET p == Pull(c)
    IN  IF p.ok THEN Yield(Pulled(a), p.c, p.item) ELSE Stop(Pulled(a), p.c)

\* src/linq/linq.go:375-389
RECURSIVE Where(_, _)
Where(a, c) ==
    LET p == Pull(c)
    IN  IF ~p.ok THEN Stop(Pulled(a), p.c)
        ELSE IF pred(p.item) THEN Yield(Called(Pulled(a)), p.c, p.item)
        ELSE Where(Called(Pulled(a)), p.c)

\* src/linq/linq.go:259-269
Select(a, c) ==
    LET p == Pull(c)
    IN  IF p.ok THEN Yield(Called(Pulled(a)), p.c, selector(p.item))
        ELSE Stop(Pulled(a), p.c)

\* src/linq/linq.go:293-315; a.nil: inner == nil
RECURSIVE SelectMany(_, _)
SelectMany(a, c) ==
    IF a.nil
      THEN LET p == Pull(c)
               o == manySelector(p.item)
           IN  IF ~p.ok THEN Stop(Pulled(a), p.c)
               ELSE IF o.nil THEN SelectMany(Called(Pulled(a)), p.c)
               ELSE SelectMany([Called(Pulled(a)) EXCEPT
                                  !.nil = FALSE, !.inner = o.seq, !.ii = 0],
                               p.c)
      ELSE LET q == PullFrom(a.inner, a.ii)
           IN  IF q.ok THEN Yield([a EXCEPT !.ii = q.c], c, q.item)
               ELSE SelectMany([a EXCEPT !.nil = TRUE], c)

RECURSIVE ConcatFirstOnly(_, _)
ConcatFirstOnly(a, c) ==
    IF a.nil
      THEN IF a.index >= Len(itArgs) THEN Stop(a, c)
           ELSE ConcatFirstOnly([a EXCEPT !.nil = FALSE, !.index = @ + 1,
                                          !.ii = 0], c)
      ELSE IF a.index = 0
      THEN LET p == Pull(c)
           IN  IF p.ok THEN Yield(Pulled(a), p.c, p.item)
               ELSE ConcatFirstOnly([Pulled(a) EXCEPT !.nil = TRUE], p.c)
      ELSE LET q == PullFrom(itArgs[a.index], a.ii)
           IN  IF q.ok THEN Yield([a EXCEPT !.ii = q.c], c, q.item)
               ELSE Stop(a, c)

\* src/linq/concat.go:51-71; a.nil: iter == nil; a.index: index; the
\* iterator at hand is the receiver's while index = 0
RECURSIVE Concat(_, _)
Concat(a, c) ==
    IF a.nil
      THEN IF a.index >= Len(itArgs) THEN Stop(a, c)
           ELSE Concat([a EXCEPT !.nil = FALSE, !.index = @ + 1, !.ii = 0], c)
      ELSE IF a.index = 0
      THEN LET p == Pull(c)
           IN  IF p.ok THEN Yield(Pulled(a), p.c, p.item)
               ELSE Concat([Pulled(a) EXCEPT !.nil = TRUE], p.c)
      ELSE LET q == PullFrom(itArgs[a.index], a.ii)
           IN  IF q.ok THEN Yield([a EXCEPT !.ii = q.c], c, q.item)
               ELSE Concat([a EXCEPT !.nil = TRUE], c)

\* src/linq/skipTake.go:26-47; a.flag: skipped
RECURSIVE SkipItems(_, _, _)
SkipItems(a, c, count) ==
    IF count < itN
      THEN LET p == Pull(c)
           IN  IF p.ok THEN SkipItems(Pulled(a), p.c, count + 1)
               ELSE [a |-> Pulled(a), c |-> p.c]
      ELSE [a |-> a, c |-> c]
SkipOnEveryAdvance(a, c) ==
    LET s == SkipItems(a, c, 0)
        p == Pull(s.c)
    IN  IF p.ok THEN Yield(Pulled(s.a), p.c, p.item) ELSE Stop(Pulled(s.a), p.c)
Skip(a, c) ==
    LET s == IF ~a.flag THEN SkipItems(a, c, 0) ELSE [a |-> a, c |-> c]
        b == [Pulled(s.a) EXCEPT !.flag = TRUE]
        p == Pull(s.c)
    IN  IF p.ok THEN Yield(b, p.c, p.item) ELSE Stop(b, p.c)

\* src/linq/skipTake.go:50-63; a.flag: skipped
RECURSIVE SkipWhile(_, _)
SkipWhile(a, c) ==
    LET p == Pull(c)
    IN  IF ~p.ok THEN Stop(Pulled(a), p.c)
        ELSE IF a.flag THEN Yield(Pulled(a), p.c, p.item)
        ELSE IF ~pred(p.item)
        THEN Yield([Called(Pulled(a)) EXCEPT !.flag = TRUE], p.c, p.item)
        ELSE SkipWhile(Called(Pulled(a)), p.c)

\* src/linq/skipTake.go:74-90; a.count: count
TakeThenCount(a, c) ==
    LET p == Pull(c)
    IN  IF p.ok /\ a.count < itN
          THEN Yield([Pulled(a) EXCEPT !.count = @ + 1], p.c, p.item)
          ELSE Stop(Pulled(a), p.c)
Take(a, c) ==
    IF a.count < itN
      THEN LET p == Pull(c)
           IN  IF p.ok
                 THEN Yield([Pulled(a) EXCEPT !.count = @ + 1], p.c, p.item)
                 ELSE Stop(Pulled(a), p.c)
      ELSE Stop(a, c)

\* src/linq/skipTake.go:93-108; a.flag: done
TakeWhile(a, c) ==
    IF a.flag THEN Stop(a, c)
    ELSE LET p == Pull(c)
         IN  IF ~p.ok THEN Stop(Pulled(a), p.c)
             ELSE IF pred(p.item) THEN Yield(Called(Pulled(a)), p.c, p.item)
             ELSE Stop([Called(Pulled(a)) EXCEPT !.flag = TRUE], p.c)

RECURSIVE DistinctFromLast(_, _)
DistinctFromLast(a, c) ==
    LET p == Pull(c)
    IN  IF ~p.ok THEN Stop(Pulled(a), p.c)
        ELSE IF p.item \notin a.set
        THEN Yield([Pulled(a) EXCEPT !.set = {p.item}], p.c, p.item)
        ELSE DistinctFromLast(Pulled(a), p.c)

\* src/linq/set.go:26-39; a.set: set
RECURSIVE Distinct(_, _)
Distinct(a, c) ==
    LET p == Pull(c)
    IN  IF ~p.ok THEN Stop(Pulled(a), p.c)
        ELSE IF p.item \notin a.set
        THEN Yield([Pulled(a) EXCEPT !.set = @ \cup {p.item}], p.c, p.item)
        ELSE Distinct(Pulled(a), p.c)

RECURSIVE IntersectRepeating(_, _)
IntersectRepeating(a, c) ==
    LET rset == toSet(itArgs[1])
        p == Pull(c)
    IN  IF ~p.ok THEN Stop(Pulled(a), p.c)
        ELSE IF p.item \in rset THEN Yield(Pulled(a), p.c, p.item)
        ELSE IntersectRepeating(Pulled(a), p.c)

\* src/linq/set.go:71-90; a.set: lset; rset is toSet(seq) from the first
\* Advance on
RECURSIVE Intersect(_, _)
Intersect(a, c) ==
    LET rset == toSet(itArgs[1])
        p == Pull(c)
    IN  IF ~p.ok THEN Stop(Pulled(a), p.c)
        ELSE IF p.item \in rset /\ p.item \notin a.set
        THEN Yield([Pulled(a) EXCEPT !.set = @ \cup {p.item}], p.c, p.item)
        ELSE Intersect(Pulled(a), p.c)

\* the handlers given to Merge: "nil" is no handler, "MergeKeep",
\* "MergeKeepLeft" and "MergeKeepRight" are those of
\* src/linq/aggregate.go:29-36, "decline" is a handler that returns false
\* for every item (as keepNegOdd of the tests does for even ones)
leftOnlyKeep == "MergeKeep"
leftOnly == itLeft
rightOnlyKeep == "MergeKeep"
rightOnly == itRight
Drop == [nv |-> Nil, keep |-> FALSE]
MergeKeep(v) == [nv |-> v, keep |-> TRUE]
Only(h, v) == IF h = "MergeKeep" THEN MergeKeep(v) ELSE Drop
Both(lv, rv) ==
    IF itBoth = "MergeKeepLeft" THEN MergeKeep(lv)
    ELSE IF itBoth = "MergeKeepRight" THEN MergeKeep(rv)
    ELSE Drop

\* src/linq/aggregate.go:230-275; a.ln, a.rn: ln, rn; c and a.ii: the
\* positions of li and ri, so li.Current() is the item at c
RECURSIVE MergeP(_, _)
MergeP(a, c) ==
    LET rs == itArgs[1]
        lv == Upstream[c]
        rv == rs[a.ii]
        l == Pull(c)
        r == PullFrom(rs, a.ii)
        lGone == [Pulled(a) EXCEPT !.ln = l.ok]
        rGone == [a EXCEPT !.rn = r.ok, !.ii = r.c]
        bGone == [Pulled(a) EXCEPT !.ln = l.ok, !.rn = r.ok, !.ii = r.c]
        Go(h, b, d) == IF h.keep THEN Yield(b, d, h.nv) ELSE MergeP(b, d)
    IN  IF a.ln /\ a.rn
          THEN IF GenericLessThan(lv, rv) THEN Go(Only(leftOnly, lv), lGone, l.c)
               ELSE IF GenericLessThan(rv, lv)
               THEN Go(Only(rightOnly, rv), rGone, c)
               ELSE Go(Both(lv, rv), bGone, l.c)
        ELSE IF a.ln /\ leftOnly # "nil"
          THEN Go(Only(leftOnly, lv), lGone, l.c)
        ELSE IF a.rn /\ rightOnly # "nil"
          THEN Go(Only(rightOnly, rv), rGone, c)
        ELSE Stop(a, c)

RECURSIVE GroupFromPrepending(_, _, _, _)
GroupFromPrepending(der, s, c, m) ==
    LET p == PullFrom(s, c)
        k == keySelector(p.item)
        v == IF der = "GroupByKV" THEN valueSelector(p.item) ELSE p.item
    IN  IF ~p.ok THEN m
        ELSE IF k \in DOMAIN m
        THEN GroupFromPrepending(der, s, p.c, [m EXCEPT ![k] = <<v>> \o @])
        ELSE GroupFromPrepending(der, s, p.c, m @@ (k :> <<v>>))

\* src/linq/linq.go:201-225: the loop that fills m, a function from the
\* keys to the lists; the value selector is nil in GroupBy
\* (src/linq/linq.go:190-192)
RECURSIVE GroupFrom(_, _, _, _)
GroupFrom(der, s, c, m) ==
    LET p == PullFrom(s, c)
        k == keySelector(p.item)
        v == IF der = "GroupByKV" THEN valueSelector(p.item) ELSE p.item
    IN  IF ~p.ok THEN m
        ELSE IF k \in DOMAIN m
        THEN GroupFrom(der, s, p.c, [m EXCEPT ![k] = Append(@, v)])
        ELSE GroupFrom(der, s, p.c, m @@ (k :> <<v>>))
GroupByKV(der, s) == GroupFrom(der, s, 0, <<>>)
Grouping == {"GroupBy", "GroupByKV"}

\* the sequences a.val of a buffering operator after the first Advance
\* (items == nil: the receiver is captured), and the IteratorFunc of the
\* three operators: a.index is index
CapturesAlways(v) == TRUE
Captures(v) == itBuf[v].nil
Filled(v) ==
    IF Captures(v)
      THEN [nil |-> FALSE, items |-> Captured(itDer, Upstream),
            drains |-> itBuf[v].drains + 1]
      ELSE itBuf[v]
Replay(a, c) ==
    LET items == Filled(a.val).items
    IN  IF a.index < Len(items)
          THEN Yield([a EXCEPT !.index = @ + 1], c, items[a.index + 1])
          ELSE Stop(a, c)

\* src/linq/set.go:52-66: Except; the set is the variable itBuf[a.val] of
\* the call, made from the arguments by the first Advance of any iterator
RECURSIVE ExceptFirstOnly(_, _)
ExceptFirstOnly(a, c) ==
    LET p == Pull(c)
    IN  IF ~p.ok THEN Stop(Pulled(a), p.c)
        ELSE IF p.item \notin toSet(itArgs[1])
        THEN Yield(Pulled(a), p.c, p.item)
        ELSE ExceptFirstOnly(Pulled(a), p.c)
RECURSIVE Except(_, _)
Except(a, c) ==
    LET set == Image(Filled(a.val).items)
        p == Pull(c)
    IN  IF ~p.ok THEN Stop(Pulled(a), p.c)
        ELSE IF p.item \notin set THEN Yield(Pulled(a), p.c, p.item)
        ELSE Except(Pulled(a), p.c)

\* src/collections/sequences.go:404-414: the iterator of the map GroupByKV
\* returns.  A Pair is written as its key, its value is itGroups[key];
\* a.inner is the order in which this iterator visits the keys.
MapNext(a, c) ==
    LET q == PullFrom(a.inner, a.ii)
    IN  IF q.ok THEN Yield([a EXCEPT !.ii = q.c], c, q.item) ELSE Stop(a, c)

\* the IteratorFunc of the sequence that was built.  "None" is the source
\* itself, "Empty" is LINQ.Empty (src/linq/linq.go:35), an empty slice.
Advance(a, c) ==
    CASE itDer = "Where" -> Where(a, c)
      [] itDer = "Select" -> Select(a, c)
      [] itDer = "SelectMany" -> SelectMany(a, c)
      [] itDer = "Concat" -> Concat(a, c)
      [] itDer = "Skip" -> Skip(a, c)
      [] itDer = "SkipWhile" -> SkipWhile(a, c)
      [] itDer = "Take" -> Take(a, c)
      [] itDer = "TakeWhile" -> TakeWhile(a, c)
      [] itDer = "Distinct" -> Distinct(a, c)
      [] itDer = "Union" -> Distinct(a, c)
      [] itDer = "Intersect" -> Intersect(a, c)
      [] itDer = "Merge" -> MergeP(a, c)
      [] itDer = "Except" -> Except(a, c)
      [] itDer \in Buffering -> Replay(a, c)
      [] itDer \in Grouping -> MapNext(a, c)
      [] itDer = "None" ->
            LET p == Pull(c)
            IN  IF p.ok THEN Yield(Pulled(a), p.c, p.item)
                ELSE Stop(Pulled(a), p.c)
      [] itDer = "Empty" -> Stop(a, c)

\* The sequence's own iterators are slice iterators if it is a slice, and
\* functionIterators (src/collections/sequences.go:283-299) otherwise.
SliceIterators == itDer = "Empty" \/ (itDer = "None" /\ itKind = "slice")

\* an iterator nobody has requested yet, and one just made by Iterator():
\* the closure's variables as the sequence function sets them
NoIterator ==
    [live |-> FALSE, nil |-> FALSE, inner |-> <<>>, ii |-> 0, index |-> 0,
     flag |-> FALSE, count |-> 0, set |-> {}, cur |-> Nil, valid |-> FALSE,
     out |-> <<>>, ups |-> 0, calls |-> 0, advs |-> 0, falses |-> 0,
     got |-> NotCalled, val |-> 1, ln |-> FALSE, rn |-> FALSE]
EagerIterator ==
    [NoIterator EXCEPT !.live = TRUE, !.nil = (itDer = "SelectMany"),
                       !.flag = TRUE, !.ups = 1]
\* li, ri := s.Iterator(), rs.Iterator(); ln, rn := li.Next(), ri.Next()
\* (src/linq/aggregate.go:235-236)
MergeIterator ==
    [NoIterator EXCEPT !.live = TRUE, !.ups = 1, !.ln = Pull(0).ok,
                       !.rn = PullFrom(itArgs[1], 0).ok,
                       !.ii = PullFrom(itArgs[1], 0).c]
NewIterator ==
    IF itDer = "Merge" THEN MergeIterator
    ELSE [NoIterator EXCEPT !.live = TRUE, !.nil = (itDer = "SelectMany")]
FirstCursor == IF itDer = "Merge" THEN Pull(0).c ELSE 0

\* the calls that return the receiver or Empty instead of a new sequence:
\* Skip(0) (skipTake.go:27-28), Take(0) (skipTake.go:75-76), Concat()
\* (concat.go:35-39), Union() (set.go:95-101)
Built(der) ==
    IF der = "Skip" /\ itN = 0 THEN "None"
    ELSE IF der = "Take" /\ itN = 0 THEN "Empty"
    ELSE IF der = "Concat" /\ itArgs = <<>> THEN "None"
    ELSE IF der = "Union" /\ itArgs = <<>> THEN "None"
    ELSE IF der = "Except" /\ itArgs = <<>> THEN "None"
    ELSE der

\* the errors of src/linq/errors.go:34-38
emptyError == -5
tooManyItemsError == -6

\* src/linq/firstLast.go:184-194; nexts: the calls of i.Next() made
TryFirst(s) ==
    LET first == PullFrom(s, 0)
    IN  IF first.ok
          THEN [called |-> TRUE, item |-> first.item, err |-> Nil,
                raised |-> Nil, nexts |-> 1]
          ELSE [called |-> TRUE, item |-> Nil, err |-> emptyError,
                raised |-> Nil, nexts |-> 1]
TrySingle(s) ==
    LET first == PullFrom(s, 0)
        second == PullFrom(s, first.c)
    IN  IF first.ok
          THEN IF ~second.ok
                 THEN [called |-> TRUE, item |-> first.item, err |-> Nil,
                       raised |-> Nil, nexts |-> 2]
                 ELSE [called |-> TRUE, item |-> Nil, err |-> tooManyItemsError,
                       raised |-> Nil, nexts |-> 2]
          ELSE [called |-> TRUE, item |-> Nil, err |-> emptyError,
                raised |-> Nil, nexts |-> 1]
\* src/linq/firstLast.go:140-147: panic(err), or the item
Single(s) ==
    LET r == TrySingle(s)
    IN  IF r.err # Nil THEN [r EXCEPT !.err = Nil, !.raised = r.err] ELSE r
\* the operators that return a value, not a sequence
Terminal == {"Single", "TrySingle"}

\* src/collections/sequences.go:82-88: used = true
MarkUnused == FALSE
MarkUsed == TRUE

\* the operator is called on the source: a sequence is returned
ItBuild ==
    /\ op = "iter" /\ itPC = "start"
    /\ itPC' = IF itDer \in Terminal THEN "done" ELSE "built"
    /\ itDer' = Built(itDer)
    /\ itGroups' = IF itDer \in Grouping THEN GroupByKV(itDer, Upstream)
                   ELSE itGroups
    /\ itRes' = IF itDer = "TrySingle" THEN TrySingle(Upstream)
                ELSE IF itDer = "Single" THEN Single(Upstream)
                ELSE itRes
    \* these read the receiver at once, with s.Iterator()
    /\ itUsed' = IF itDer \in Grouping \cup Terminal /\ oneTime
                   THEN MarkUsed ELSE itUsed
    /\ UNCHANGED <<itKind, itN, itArgs, itPre, itBoth, itOp, itLeft, itRight>>
    /\ UNCHANGED <<itUps, itIts, itErr, itReqs, itBuf>>
    /\ UNCHANGED <<inputs, crashed, feVars, psVars>>

\* each Iterator() of the sequence gets its own iterator of the source
\* (i := s.Iterator() inside the sequence function)
SharedSlot(k) == 1
CursorSlot(k) == k

\* The operator may have been called on the source more than once: an
\* iterator is requested from one of the sequences returned.  Sequences
\* that keep nothing between their iterators are all alike, so only those
\* of the buffering operators are told apart.
Values == {1, 2}
\* the operators whose sequence function shares a variable of the call
Sharing == Buffering \cup {"Except"}
ValuesOf(der) == IF der \in Sharing THEN Values ELSE {1}
\* the orders in which reflect.MapIter may visit the keys of m
Perms(S) ==
    {f \in [1..Cardinality(S) -> S] :
        \A i, j \in 1..Cardinality(S) : i # j => f[i] # f[j]}
KeyOrders == IF itDer \in Grouping THEN Perms(DOMAIN itGroups) ELSE {<<>>}
\* the sequence function of every operator but these starts with
\* s.Iterator()
TakesIteratorAlways == itDer # "Empty"
TakesIterator == itDer \notin ({"Empty"} \cup Buffering \cup Grouping)

\* Iterator() on the sequence.  Unless the sequence is Empty, it calls the
\* source's Iterator(), which panics on a one-time source already used.
ItIterator ==
    /\ op = "iter" /\ itPC = "built"
    /\ itReqs < Cardinality(Iterators)
    /\ itReqs' = itReqs + 1
    /\ \E v \in ValuesOf(itDer), order \in KeyOrders :
       LET k == CHOOSE j \in Iterators :
                    /\ ~itIts[j].live
                    /\ \A i \in Iterators : i < j => itIts[i].live
       IN  IF TakesIterator /\ oneTime /\ itUsed
             THEN /\ itErr' = AlreadyIterated
                  /\ UNCHANGED <<itUsed, itUps, itIts>>
             ELSE /\ itIts' = [itIts EXCEPT ![k] =
                        [NewIterator EXCEPT !.val = v, !.inner = order]]
                  /\ itUps' = [itUps EXCEPT ![CursorSlot(k)] = FirstCursor]
                  /\ itUsed' = IF TakesIterator /\ oneTime
                                 THEN MarkUsed ELSE itUsed
                  /\ UNCHANGED itErr
    /\ UNCHANGED <<itCfg, itPC, itBuf, itGroups, itRes>>
    /\ UNCHANGED <<inputs, crashed, feVars, psVars>>

\* Next() on iterator k: tIterator.Next, or functionIterator.Next
\* (i.cur, i.valid = i.f()).  A client calls Next again after it returned
\* false at most MaxExtra times.
ItNext(k) ==
    /\ op = "iter" /\ itPC = "built"
    /\ itIts[k].live /\ itIts[k].falses <= MaxExtra
    /\ LET r == Advance(itIts[k], itUps[CursorSlot(k)])
           v == itIts[k].val
           captures == itDer \in Buffering /\ Captures(v)
       IN  IF captures /\ oneTime /\ itUsed
             \* ToSlice requests an iterator of the receiver, which panics
             THEN /\ itErr' = AlreadyIterated
                  /\ UNCHANGED <<itIts, itUps, itBuf, itUsed>>
             ELSE /\ itIts' = [itIts EXCEPT ![k] =
                        [r.a EXCEPT !.cur = r.item, !.valid = r.ok,
                                    !.out = IF r.ok THEN Append(@, r.item) ELSE @,
                                    !.advs = @ + 1,
                                    !.falses = IF r.ok THEN @ ELSE @ + 1,
                                    !.got = NotCalled]]
                  /\ itUps' = [itUps EXCEPT ![CursorSlot(k)] = r.c]
                  /\ itBuf' = IF itDer \in Sharing
                                THEN [itBuf EXCEPT ![v] = Filled(v)] ELSE itBuf
                  /\ itUsed' = IF captures /\ oneTime THEN MarkUsed ELSE itUsed
                  /\ UNCHANGED itErr
    /\ UNCHANGED <<itCfg, itPC, itReqs, itGroups, itRes>>
    /\ UNCHANGED <<inputs, crashed, feVars, psVars>>

\* Current() on iterator k.  tIterator and genericArrayIterator index the
\* array with their index, which is -1 before the first Next (a run-time
\* panic) and stays on the last item after the last one; functionIterator
\* checks valid; reflect.MapIter, behind mapIterator.Current, panics by
\* itself outside the sequence.
Current(k) ==
    IF SliceIterators
      THEN IF itUps[CursorSlot(k)] >= 1
             THEN (IF itDer = "Empty" THEN <<>> ELSE src)[itUps[CursorSlot(k)]]
             ELSE IndexOutOfRange
      ELSE IF itIts[k].valid THEN itIts[k].cur
      ELSE IF itDer \in Grouping THEN MapIterOutside
      ELSE OutsideSequence
ItCurrent(k) ==
    /\ op = "iter" /\ itPC = "built"
    /\ itIts[k].live /\ itIts[k].got = NotCalled
    /\ itIts' = [itIts EXCEPT ![k].got = Current(k)]
    /\ UNCHANGED <<itCfg, itPC, itUsed, itUps, itErr, itReqs, itBuf, itGroups,
                   itRes>>
    /\ UNCHANGED <<inputs, crashed, feVars, psVars>>

ItNextStep ==
    \/ ItBuild \/ ItIterator
    \/ \E k \in Iterators : ItNext(k) \/ ItCurrent(k)

\* nothing built, nothing requested
NoBuffer == [nil |-> TRUE, items |-> <<>>, drains |-> 0]
NoResult == [called |-> FALSE, item |-> Nil, err |-> Nil, raised |-> Nil, nexts |-> 0]
ItStart ==
    /\ itPC = "start" /\ itUsed = FALSE /\ itErr = Nil /\ itReqs = 0
    /\ itUps = [k \in Iterators |-> 0]
    /\ itIts = [k \in Iterators |-> NoIterator]
    /\ itBuf = [v \in Values |-> NoBuffer]
    /\ itGroups = <<>>
    /\ itRes = NoResult
    /\ itOp = itDer
ItInit ==
    /\ itKind \in {"slice", "func"}
    /\ oneTime \in BOOLEAN /\ (oneTime => itKind = "func")
    /\ itDer \in Operators
    /\ itN \in (IF itDer \in {"Skip", "Take"} THEN 0..MaxLen ELSE {0})
    /\ itArgs \in (IF itDer = "Concat" THEN ConcatArgs ELSE {<<>>})
    /\ itPre = "None" /\ itBoth = "MergeKeepLeft"
    /\ itLeft = "MergeKeep" /\ itRight = "nil"
    /\ ItStart
ItIdle ==
    /\ itKind = "slice" /\ itDer = "None" /\ itN = 0 /\ itArgs = <<>>
    /\ itPre = "None" /\ itBoth = "MergeKeepLeft"
    /\ itLeft = "MergeKeep" /\ itRight = "nil"
    /\ ItStart

\* ========================================================================
\* The specification
\* ========================================================================
ThreadArgs == -1 .. MaxThreads

Start ==
    /\ op \in {"foreach", "select", "iter"}
    /\ crashed = FALSE
    /\ CASE op = "foreach" ->
              /\ src \in Sources /\ fails \in SUBSET Image(src)
              /\ feThreads \in ThreadArgs /\ FeInit /\ PsIdle /\ ItIdle
              /\ oneTime \in BOOLEAN
         [] op = "select" ->
              /\ src \in Sources /\ fails \in SUBSET Image(src)
              /\ psMax \in ThreadArgs /\ PsInit /\ FeIdle /\ ItIdle
              \* one iteration of the result is followed, so s.Iterator()
              \* is called once and the kind of source makes no difference
              /\ oneTime = FALSE
         [] op = "iter" ->
              /\ src \in ItSources /\ fails = {}
              /\ ItInit /\ FeIdle /\ PsIdle

\* the sources of Spec never panic
Init == Start /\ srcFail = 0

\* A panic in a goroutine ends the process: nothing runs after it.
Next ==
    /\ ~crashed
    /\ (FeNextStep \/ PsNextStep \/ ItNextStep)

Spec == Init /\ [][Next]_vars

\* ParallelSelect with more threads allowed than one top-up starts, on short
\* sources and with a selector that never fails.
BurstLen == 1
BurstThreads == MaxBurst + MaxThreads
BurstInit ==
    /\ op = "select" /\ crashed = FALSE
    /\ src \in Sources /\ Len(src) <= BurstLen
    /\ fails = {} /\ oneTime = FALSE /\ srcFail = 0
    /\ psMax = BurstThreads /\ PsInit /\ FeIdle /\ ItIdle
BurstNext ==
    /\ ~crashed
    /\ \/ PsCall \/ PsIterator
       \/ PsLock \/ PsPull \/ PsSelector \/ PsSend \/ PsDec \/ PsEosSet
       \/ PsClose
       \/ PsAdvance \/ PsTopLoad \/ PsTopUp \/ PsSelect \/ PsDefLoad
       \/ PsDefault \/ PsBlock \/ PsLaunch \/ PsReturn
SpecBurst == BurstInit /\ [][BurstNext]_vars

\* The parallel operators on a source whose Next panics at one of its items.
SourceFailsInit ==
    Start /\ op \in {"foreach", "select"} /\ srcFail \in 1..Len(src)
SourceFailsNext == ~crashed /\ (FeNextStep \/ PsNextStep)
SpecSourceFails == SourceFailsInit /\ [][SourceFailsNext]_vars

\* ------------------------------------------------------------------------
\* The queries: the operators that buffer, filter, join, order and group.
\* The client calls one of them on a receiver (the source, or for some a
\* sequence built on it by an earlier call), then iterates what it returned.
\* ------------------------------------------------------------------------
QItems == {1, 2, 3}
QSources == UNION {[1..n -> QItems] : n \in 0..MaxLen}
Ascending(s) == \A i, j \in DOMAIN s : i < j => s[i] < s[j]
QOperators ==
    Buffering \cup Grouping \cup
    {"Where", "Concat", "Distinct", "Intersect", "Union", "Merge", "Except"}
    \cup Terminal
\* the sequences given to Union, to Intersect (the receiver itself among
\* them) and to Merge
UnionArgs == ConcatArgs \cup {<< <<2, 2>>, <<4, 1>> >>}
IntersectArgs == {<<src>>, << <<3, 1, 3>> >>}
ExceptArgs == {<<>>, << <<2>> >>, << <<1>>, <<3, 1>> >>, << <<>>, <<2, 2>> >>}
MergeArgs == {<< <<>> >>, << <<2>> >>, << <<1, 3>> >>, << <<0, 2, 3, 4>> >>}
\* the handlers given to Merge
OnlyHandlers == {"nil", "MergeKeep", "decline"}
BothHandlers == {"nil", "MergeKeepLeft", "MergeKeepRight", "decline"}
\* the receivers an operator is called on
Receivers(der) ==
    IF der = "Distinct" THEN {"None", "Distinct"}
    ELSE IF der \in Orders THEN {"None", der}
    ELSE {"None"}

QueryInit ==
    /\ op = "iter" /\ crashed = FALSE /\ fails = {} /\ srcFail = 0
    /\ itDer \in QOperators
    /\ src \in QSources /\ (itDer = "Merge" => Ascending(src))
    /\ itKind = "func"
    /\ oneTime \in (IF itDer \in {"Cache"} \cup Terminal THEN BOOLEAN
                     ELSE {FALSE})
    /\ itN = 0
    /\ itArgs \in (CASE itDer = "Concat" -> ConcatArgs
                      [] itDer = "Union" -> UnionArgs
                      [] itDer = "Intersect" -> IntersectArgs
                      [] itDer = "Merge" -> MergeArgs
                      [] itDer = "Except" -> ExceptArgs
                      [] OTHER -> {<<>>})
    /\ itPre \in Receivers(itDer)
    /\ itBoth \in (IF itDer = "Merge" THEN BothHandlers ELSE {"MergeKeepLeft"})
    /\ itLeft \in (IF itDer = "Merge" THEN OnlyHandlers ELSE {"MergeKeep"})
    /\ itRight \in (IF itDer = "Merge" THEN OnlyHandlers ELSE {"nil"})
    /\ ItStart /\ FeIdle /\ PsIdle
\* The client reads the items Next delivers; it asks for a second iterator
\* where iterators share something, the sequences of the buffering
\* operators.
QIterator == ItIterator /\ (itDer \in Sharing \/ itReqs = 0)
QueryNext ==
    /\ ~crashed
    /\ (ItBuild \/ QIterator \/ \E k \in Iterators : ItNext(k))
SpecQuery == QueryInit /\ [][QueryNext]_vars

\* ========================================================================
\* Properties
\* ========================================================================
Parallel ==
    op = "select" /\ psPC \notin {"call", "invalid", "built", "seqBuilt", "seq"} /\ psMax > 1
FePar == op = "foreach" /\ feMode \in {"unbounded", "pool"}

\* the bag of the selector's results over the first n items of the source
Mapped(n) ==
    LET res == {selector(src[k]) : k \in 1..n}
    IN  [r \in res |-> Cardinality({k \in 1..n : selector(src[k]) = r})]
\* the bag holding each of the first n items of the source once
Firsts(n) == [x \in {src[k] : k \in 1..n} |-> 1]
\* how many times the action was called on an item
CallsOf(item) == Cardinality({j \in 1..Len(feCalls) : feCalls[j] = item})
\* how many goroutines of a bag are in state st
CountSt(B, st) ==
    LET S == {g \in BagToSet(B) : g.st = st}
    IN  BagCardinality([g \in S |-> B[g]])

\* C1: with a selector that never fails, ParallelSelect with maxThreads > 1
\* claims every source item at most once, delivers only results of claimed
\* items, and when Advance returns false the delivered results are, as a
\* multiset, exactly the selector's results over the whole source.
C1_ExactMultiset ==
    (Parallel /\ fails = {}) =>
        /\ psClaims = Firsts(psI)
        /\ psMade <= psI
        /\ psOut \sqsubseteq Mapped(psI)
        /\ BagCardinality(psOut) <= psMade
        /\ psPC # "raised"
        /\ psPC = "ended" =>
             /\ psI = Len(src)
             /\ psMade = Len(src)
             /\ psOut = Mapped(Len(src))
C1_Witness ==
    /\ Parallel /\ fails = {} /\ psPC = "ended"
    /\ Len(src) >= 3
    /\ \E r \in BagToSet(psOut) : psOut[r] = 2

\* C2 (as claimed): at the step in which Advance raises the captured
\* failure, every result computed so far has been returned by Advance.
C2_RaisedAfterAllResults ==
    [][(Parallel /\ psPC # "raised" /\ psPC' = "raised")
         => psMade' = BagCardinality(psOut')]_vars

\* C3 (as claimed): a run of ParallelSelect in which a failure was captured
\* does not come to its end (no step left to take) without the failure
\* having been raised to the consumer.
C3_FailureRaised ==
    (Parallel /\ psEx # Nil /\ ~ENABLED Next) => psPC = "raised"

\* C4 (as claimed): with an action that never fails, ParallelForEach never
\* panics, calls the action on source items only and on each at most once,
\* and has called it on every item exactly once when it returns, for every
\* thread setting and every finite source.
C4_EachItemOnce ==
    (op = "foreach" /\ fails = {}) =>
        /\ fePC # "panicked"
        /\ Image(feCalls) \subseteq Image(src)
        /\ \A k \in 1..Len(src) : CallsOf(src[k]) <= 1
        /\ fePC = "returned" => \A k \in 1..Len(src) : CallsOf(src[k]) = 1

\* C5: in the parallel modes of ParallelForEach a call in which an action
\* failed never returns normally; it panics with a captured value only when
\* every goroutine it started has exited, and every action that was called
\* and did not fail has completed.
C5_FailureReraised ==
    FePar =>
        /\ fePC = "returned" => feFirst = Nil
        /\ fePC = "panicked" =>
             /\ feG = EmptyBag /\ feWg = 0
             /\ feRaised # Nil /\ feRaised \in {PanicValue(x) : x \in fails}
             /\ feDone = Image(feCalls) \ fails
C5_Witness ==
    /\ FePar /\ fePC = "panicked"
    /\ feDone # {} /\ Len(feCalls) >= 3

C7_StopsAtCapture ==
    [][(FePar /\ feEx # Nil) =>
         /\ feI' = feI
         /\ Len(feC') <= Len(feC)
         /\ CountSt(feG', "new") <= CountSt(feG, "new")]_vars
\* C7 (amended): after a failure has been captured the producer pulls at
\* most one more item and hands at most one more item over.
C7_AtMostOneMore ==
    FePar => feLate.pulls <= 1 /\ feLate.hands <= 1
C7_Witness ==
    /\ FePar /\ fePC = "panicked"
    /\ feLate.pulls = 1 /\ feLate.hands = 1
    /\ feI < Len(src)

\* C8 (as claimed): once a failure has been captured in ParallelSelect, no
\* worker claims a further item from the source.
C8_NoClaimAfterFailure ==
    [][(Parallel /\ psEx # Nil) => psI' = psI]_vars

\* C9: at most one ParallelSelect worker is inside i.Next()/i.Current() at
\* a time, and it holds the mutex; in ParallelForEach the iterator moves
\* only in a step of the calling goroutine, never in a step of a goroutine
\* it started.
C9_OnePuller ==
    /\ [](CountSt(psG, "next") <= 1 /\ (CountSt(psG, "next") = 1 => psM))
    /\ [][feI' # feI =>
            /\ fePC \in {"uNext", "bNext", "sNext"}
            /\ fePC' # fePC
            /\ feG' = feG]_vars
C9_Witness ==
    /\ Parallel
    /\ CountSt(psG, "next") = 1 /\ CountSt(psG, "new") >= 1

\* C10: in the pool mode of ParallelForEach at most `threads` actions run at
\* once, the channel holds at most `threads` items, and the producer's send
\* is blocked while the channel is full.
C10_Bounded ==
    (op = "foreach" /\ feMode = "pool") =>
        /\ CountSt(feG, "run") + CountSt(feG, "got") <= feThreads
        /\ Len(feC) <= feThreads
        /\ (fePC = "bSend" /\ Len(feC) = feThreads) => ~ENABLED FeBSend
C10_Witness ==
    /\ op = "foreach" /\ feMode = "pool"
    /\ fePC = "bSend" /\ Len(feC) = feThreads
    /\ CountSt(feG, "run") = 0

\* the workers that were launched and have neither pushed a result (line 131)
\* nor given up (readItem returned no item, line 126)
InFlight ==
    CountSt(psG, "new") + CountSt(psG, "next") + CountSt(psG, "sel")
        + CountSt(psG, "send")

\* C11: in ParallelSelect with maxThreads > 1 the workers launched that have
\* not yet pushed a result or given up, plus the results buffered and not yet
\* delivered, number at most maxThreads in every reachable state; so at most
\* maxThreads selector calls run at once.
C11_Slack ==
    Parallel =>
        /\ InFlight + Len(psC) <= psMax
        /\ CountSt(psG, "sel") <= psMax
C11_Witness ==
    /\ Parallel
    /\ InFlight + Len(psC) = psMax
    /\ Len(psC) >= 1
    /\ CountSt(psG, "sel") >= 1

\* the steps of the workers (readItem and processOne, lines 109-137)
PsWorkerStep ==
    PsLock \/ PsPull \/ PsSelector \/ PsSend \/ PsDec \/ PsEosSet \/ PsClose

\* the steps a worker has left before its exit, at most: "new" 7 down to
\* "close" 1 along readItem and processOne; summed over the workers
StepsLeft(st) ==
    CASE st = "new" -> 7 [] st = "next" -> 6 [] st = "sel" -> 5
      [] st = "send" -> 4 [] st = "dec" -> 3 [] st = "eos" -> 2
      [] st = "close" -> 1
PsWorkLeft ==
    LET Sum[S \in SUBSET BagToSet(psG)] ==
            IF S = {} THEN 0
            ELSE LET g == CHOOSE x \in S : TRUE
                 IN  psG[g] * StepsLeft(g.st) + Sum[S \ {g}]
    IN  Sum[BagToSet(psG)]

\* C12: no worker of ParallelSelect waits on a full result buffer: a worker
\* about to push always finds room, while workers are launched one of them
\* can always take its next step, and every step of a worker brings the
\* workers nearer their exit; so if the consumer stops calling Advance at
\* any point, the workers already launched finish and exit.
C12_NoWorkerBlocked ==
    /\ [](Parallel =>
            /\ (CountSt(psG, "send") > 0 /\ ~psClosed) => Len(psC) < psMax
            /\ (psG # EmptyBag /\ ~crashed) => ENABLED PsWorkerStep)
    /\ [][(op = "select" /\ PsWorkerStep /\ ~crashed')
             => PsWorkLeft' < PsWorkLeft]_vars
C12_Witness ==
    /\ Parallel /\ ~crashed
    /\ Len(psC) = psMax - 1
    /\ CountSt(psG, "send") = 1

\* ParallelForEach alone, under the Go scheduler: it runs a goroutine that
\* can run, so while a step of the call is possible, one is taken.
ForEachInit == Init /\ op = "foreach"
ForEachNext == ~crashed /\ FeNextStep
SpecForEach == ForEachInit /\ [][ForEachNext]_vars /\ WF_vars(ForEachNext)

FeOver == fePC \in {"returned", "panicked"}

\* C13: a ParallelForEach call over a finite source with terminating actions
\* always comes to its end, returning or re-raising, whether or not actions
\* fail; and whenever it has returned or re-raised, every worker and task it
\* started has exited.
C13_Terminates ==
    /\ (op = "foreach" => <>FeOver)
    /\ []((op = "foreach" /\ FeOver) => (feG = EmptyBag /\ feWg = 0))
C13_Witness ==
    /\ FePar /\ fePC = "panicked"
    /\ feMode = "pool" /\ feThreads = MaxThreads
    /\ Len(feCalls) = Len(src) /\ Len(src) > MaxThreads

\* C14 (as claimed): in ParallelSelect with maxThreads > 1 a consumer that
\* keeps calling Advance never waits forever: whenever it waits for a result
\* (the receive of line 164), a worker is still running, a result is
\* buffered, or the result stream is closed.
C14_NeverStuck ==
    (Parallel /\ ~crashed /\ psPC = "block") =>
        (psG # EmptyBag \/ psC # <<>> \/ psClosed)

\* The sequential operators on the same source and closure: LINQ.ForEach
\* (src/linq/linq.go:153-158) calls the action on the items in order up to
\* and with the first one it panics on; LINQ.Select (src/linq/linq.go:259-269)
\* yields the selector's results in order up to the first item it panics on.
FirstFail ==
    IF \E k \in 1..Len(src) : src[k] \in fails
      THEN CHOOSE k \in 1..Len(src) :
               /\ src[k] \in fails
               /\ \A j \in 1..(k - 1) : src[j] \notin fails
      ELSE 0
ForEachCalls == IF FirstFail = 0 THEN src ELSE SubSeq(src, 1, FirstFail)
SelectResults(n) == [k \in 1..n |-> selector(src[k])]

\* C15 (as claimed): ParallelSelect with maxThreads = 1 yields what the
\* sequential Select yields, in the same order and with the same failure, and
\* ParallelForEach with threads = 1 calls the action on the same items in
\* the same order as the sequential ForEach and ends as it ends.
C15_SameAsSequential ==
    /\ (op = "select" /\ psMax = 1 /\ psPC # "call") =>
          /\ psG = EmptyBag
          /\ psSeq = SelectResults(Len(psSeq))
          /\ psPC = "ended" => (FirstFail = 0 /\ Len(psSeq) = Len(src))
          /\ psPC = "raised" =>
                /\ FirstFail > 0 /\ Len(psSeq) = FirstFail - 1
                /\ psEx = PanicValue(src[FirstFail])
    /\ (op = "foreach" /\ feMode # "unbounded" /\ feThreads = 1
          /\ fePC # "call") =>
          /\ feG = EmptyBag
          /\ feCalls = SubSeq(ForEachCalls, 1, Len(feCalls))
          /\ fePC = "returned" => (FirstFail = 0 /\ feCalls = src)
          /\ fePC = "panicked" =>
                /\ FirstFail > 0 /\ feCalls = ForEachCalls
                /\ feRaised = PanicValue(src[FirstFail])

\* C16: ParallelSelect called with maxThreads < 0 fails at the call itself
\* with the invalid-argument panic, and nothing has happened by then or
\* happens after: no iterator was obtained from the source, no item pulled,
\* no worker started.
C16_InvalidAtCall ==
    /\ [][(op = "select" /\ psPC = "call" /\ psMax < 0) => psPC' = "invalid"]_vars
    /\ []((op = "select" /\ psMax < 0) =>
            /\ psPC \in {"call", "invalid"}
            /\ ~psIt /\ psI = 0 /\ psClaims = EmptyBag
            /\ psG = EmptyBag /\ psThreads = 0)
    /\ []((op = "select" /\ psPC = "invalid") => (psMax < 0 /\ ~ENABLED Next))
C16_Witness == op = "select" /\ psPC = "invalid" /\ Len(src) > 0

\* C17 (as claimed): on every iterator, a call of Current made before any
\* Next has returned true, or after Next has returned false, fails (panics)
\* and returns no value.
C17_CurrentFails ==
    op = "iter" =>
        \A k \in Iterators :
            (/\ itIts[k].live /\ itIts[k].got # NotCalled
             /\ (itIts[k].out = <<>> \/ itIts[k].falses > 0))
            => itIts[k].got \in {OutsideSequence, IndexOutOfRange}

\* C18: a one-time sequence gives out one iterator.  A second request for
\* an Iterator fails with "sequence already iterated", wherever the first
\* iterator stands (not advanced, part way, exhausted), and leaves the first
\* iterator as it was: it goes on to yield the items of the source.
C18_OneTime ==
    /\ [][(op = "iter" /\ oneTime /\ itDer = "None" /\ itPC = "built"
             /\ itReqs = 1 /\ itReqs' = 2)
           => (/\ itErr' = AlreadyIterated
               /\ itIts' = itIts /\ itUps' = itUps)]_vars
    /\ []((op = "iter" /\ oneTime /\ itDer = "None") =>
            /\ ~itIts[2].live
            /\ itIts[1].live <=> itReqs >= 1
            /\ itIts[1].out = SubSeq(src, 1, Len(itIts[1].out))
            /\ itIts[1].falses > 0 => itIts[1].out = src)
C18_Witness ==
    /\ op = "iter" /\ oneTime /\ itDer = "None"
    /\ itErr = AlreadyIterated
    /\ Len(src) >= 2 /\ itIts[1].falses > 0 /\ itIts[1].out = src

\* the items one iterator of the sequence yields when it is advanced to its
\* end with no other iterator about
RECURSIVE Drain(_, _, _)
Drain(a, c, out) ==
    LET r == Advance(a, c)
    IN  IF r.ok THEN Drain(r.a, r.c, Append(out, r.item)) ELSE out
Alone == Drain(NewIterator, 0, <<>>)
Lazy == op = "iter" /\ itPC = "built" /\ itDer \notin {"None", "Empty"}

\* C19: two iterators obtained from the same sequence built by Where,
\* Select, SelectMany, Concat, Skip, Take or Distinct (or SkipWhile,
\* TakeWhile) on a restartable source, advanced in any interleaving, each
\* yield the whole list that one iterator alone yields, and a Next on one
\* changes nothing of the other.
C19_Independent ==
    /\ []((Lazy /\ ~oneTime) =>
            \A k \in Iterators :
                /\ itIts[k].out = SubSeq(Alone, 1, Len(itIts[k].out))
                /\ itIts[k].falses > 0 => itIts[k].out = Alone)
    /\ [][(Lazy /\ ~oneTime) =>
            \A k, j \in Iterators :
                (k # j /\ itIts'[k].advs # itIts[k].advs)
                => (itIts'[j] = itIts[j] /\ itUps'[j] = itUps[j])]_vars
C19_Witness ==
    /\ Lazy /\ ~oneTime /\ itDer = "Distinct"
    /\ Len(Alone) >= 2 /\ Len(src) > Len(Alone)
    /\ itIts[1].out = Alone /\ itIts[1].falses > 0
    /\ itIts[2].live /\ Len(itIts[2].out) = 1

\* C20: for Where, Select, SelectMany, Concat (Append, Prepend), Skip,
\* SkipWhile, Take and TakeWhile, building the sequence and obtaining an
\* iterator from it advances nothing and calls no user closure: until the
\* first Next on an iterator of the sequence, the iterator of the source it
\* holds stands before the first item, no argument of Concat has been
\* started, and no closure was called; source and closures are touched only
\* inside a Next on the sequence's iterator.
C20_Lazy ==
    /\ []((op = "iter" /\ itReqs = 0) =>
            (itUps = [k \in Iterators |-> 0] /\ ~itUsed))
    /\ [](Lazy =>
            \A k \in Iterators :
                (itIts[k].live /\ itIts[k].advs = 0) =>
                    /\ itIts[k].ups = 0 /\ itIts[k].calls = 0
                    /\ itUps[k] = 0 /\ itIts[k].out = <<>>
                    /\ itIts[k].index = 0 /\ itIts[k].ii = 0
                    /\ itIts[k].inner = <<>> /\ ~itIts[k].flag)
    /\ [][Lazy =>
            \A k \in Iterators :
                (\/ itUps'[k] # itUps[k]
                 \/ (itIts[k].live /\ itIts'[k].ups # itIts[k].ups)
                 \/ (itIts[k].live /\ itIts'[k].calls # itIts[k].calls))
                => itIts'[k].advs = itIts[k].advs + 1]_vars
C20_Witness ==
    /\ Lazy /\ itDer = "Skip" /\ itN = 2 /\ Len(src) >= 3
    /\ itIts[1].live /\ itIts[1].advs = 0
    /\ itIts[2].advs = 1 /\ itIts[2].ups = 3

\* ------------------------------------------------------------------------
\* the iterators obtained from the sequence that call v of the operator
\* returned, and those among them that Advance was called on
Of(v) == {k \in Iterators : itIts[k].live /\ itIts[k].val = v}
Advanced(v) == {k \in Of(v) : itIts[k].advs > 0}
IsPrefix(s, t) == Len(s) <= Len(t) /\ s = SubSeq(t, 1, Len(s))
Buffered == op = "iter" /\ itPC = "built" /\ itOp \in Buffering

OneCache ==
    /\ Buffered /\ itOp = "Cache" /\ oneTime
    /\ \E v \in Values : \A k \in Iterators : itIts[k].live => itIts[k].val = v
Drains == itBuf[1].drains + itBuf[2].drains

\* C22: however often the sequence Cache() returned for a one-time source
\* is iterated, an empty source included, no request and no Advance fails
\* with "sequence already iterated", the source is iterated once (by the
\* first Advance, and never before), and every iteration that reached its
\* end delivered the items of the source.
C22_CacheReiterable ==
    OneCache =>
        /\ itErr = Nil
        /\ Drains <= 1
        /\ itUsed = (Drains = 1)
        /\ \A k \in Iterators :
             /\ itIts[k].live => IsPrefix(itIts[k].out, src)
             /\ itIts[k].live /\ itIts[k].falses > 0 => itIts[k].out = src

\* two complete iterations of one Cache() of a one-time source
C22_Witness ==
    /\ OneCache /\ Len(src) = MaxLen /\ itReqs = 2 /\ Drains = 1
    /\ \A k \in Iterators :
         itIts[k].live /\ itIts[k].falses > 0 /\ itIts[k].out = src

\* ------------------------------------------------------------------------
\* the one iterator a query is read with, and what it has delivered
Reading(der) ==
    op = "iter" /\ itPC = "built" /\ itOp = der /\ itIts[1].live
Out == itIts[1].out
Ended == itIts[1].falses > 0
\* the items of s that satisfy pred, in the order and number they have in s
Filtered(s) == SelectSeq(s, pred)

\* C23: an iteration of Where(S, pred) delivers the items of S that
\* satisfy pred, in the order of S and as often as S holds them: always a
\* first part of them, and all of them when Next returns false.  The
\* sources hold passing and failing items in every arrangement.
C23_WhereFilters ==
    Reading("Where") =>
        /\ IsPrefix(Out, Filtered(src))
        /\ Ended => Out = Filtered(src)

\* a failing item between two passing ones, the iteration at its end
C23_Witness ==
    /\ Reading("Where") /\ Ended
    /\ src = <<1, 2, 1>> /\ Out = <<1, 1>>

\* ------------------------------------------------------------------------
\* the first n of the sequences args, one after the other
RECURSIVE Joined(_, _)
Joined(args, n) == IF n = 0 THEN <<>> ELSE Joined(args, n - 1) \o args[n]
AllJoined(args) == Joined(args, Len(args))

\* C24: an iteration of A.Concat(B1..Bk) delivers the items of A, then
\* those of B1, and so on to Bk, empty sequences among them adding nothing.
\* While it reads A it has delivered what it has passed in A; when it is in
\* Bj, then A is exhausted, B1..Bj-1 were delivered whole, and so was the
\* part of Bj it has passed; when Next returns false everything was
\* delivered.
C24_ConcatInOrder ==
    Reading("Concat") =>
        LET a == itIts[1]
            all == src \o AllJoined(itArgs)
        IN  /\ IsPrefix(Out, all)
            /\ Ended => Out = all
            /\ itDer = "Concat" /\ a.index = 0 => Out = SubSeq(src, 1, itUps[1])
            /\ itDer = "Concat" /\ a.index > 0 =>
                 /\ itUps[1] = Len(src)
                 /\ IF a.nil THEN Out = src \o Joined(itArgs, a.index)
                    ELSE Out = src \o Joined(itArgs, a.index - 1)
                                   \o SubSeq(itArgs[a.index], 1, a.ii)

\* an empty sequence was passed over and the one after it was read
C24_Witness ==
    /\ Reading("Concat") /\ Ended /\ Len(src) = 2
    /\ itArgs = << <<>>, <<3>> >> /\ Out = src \o <<3>>

\* ------------------------------------------------------------------------
\* the first occurrence of every item among the first n of s, in the
\* order of s
RECURSIVE FirstsOf(_, _)
FirstsOf(s, n) ==
    IF n = 0 THEN <<>>
    ELSE IF \E j \in 1..(n - 1) : s[j] = s[n] THEN FirstsOf(s, n - 1)
    ELSE Append(FirstsOf(s, n - 1), s[n])
FirstOccurrences(s) == FirstsOf(s, Len(s))

\* C25: an iteration of Distinct(S) delivers the first occurrence of every
\* item of S and nothing else, in the order of S; and an iteration of
\* Distinct(Distinct(S)) delivers the items of Distinct(S).
C25_DistinctFirsts ==
    Reading("Distinct") =>
        /\ itPre = "None" =>
             /\ IsPrefix(Out, FirstOccurrences(src))
             /\ Ended => Out = FirstOccurrences(src)
        /\ itPre = "Distinct" =>
             /\ Upstream = FirstOccurrences(src)
             /\ IsPrefix(Out, Upstream)
             /\ Ended => Out = Upstream

\* Distinct of a Distinct of a source that repeats an item, at its end
C25_Witness ==
    /\ Reading("Distinct") /\ itPre = "Distinct" /\ Ended
    /\ src = <<2, 1, 2>> /\ Out = <<2, 1>>

\* ------------------------------------------------------------------------
\* C26: an iteration of Intersect(S, S), S a sequence that can be iterated
\* again, delivers what an iteration of Distinct(S) delivers: always a first
\* part of it, and all of it when Next returns false.
C26_IntersectSelf ==
    Reading("Intersect") /\ itArgs = <<src>> /\ ~oneTime =>
        /\ IsPrefix(Out, DistinctSlice(src))
        /\ Ended => Out = DistinctSlice(src)

\* S repeats an item and the iteration of Intersect(S, S) is at its end
C26_Witness ==
    /\ Reading("Intersect") /\ itArgs = <<src>> /\ ~oneTime /\ Ended
    /\ src = <<3, 3, 2>> /\ Out = <<3, 2>>

\* ------------------------------------------------------------------------
Ordering == op = "iter" /\ itPC = "built" /\ itOp \in Orders /\ itIts[1].live
Occurs(s, x) == Cardinality({i \in DOMAIN s : s[i] = x})
IsPermutation(s, t) ==
    /\ Len(s) = Len(t)
    /\ \A x \in Image(s) \cup Image(t) : Occurs(s, x) = Occurs(t, x)
\* no item of s is less, under the comparison of the operator, than an item
\* before it (greater, for the descending operators)
InOrder(der, s) ==
    \A i, j \in DOMAIN s :
        i < j => IF OrderDescending(der) THEN ~cmp(der, s[i], s[j])
                 ELSE ~cmp(der, s[j], s[i])

\* C27: a complete iteration of Order, OrderDescending, OrderP or
\* OrderDescendingP has delivered a permutation of the source in which no
\* item is less than one before it under the comparison (none greater, for
\* the descending operators), the comparison being GenericLessThan or one
\* under which different items are equivalent; and the same holds when the
\* receiver is itself the ordered sequence: the items of the source, in
\* order again.
C27_OrderSorts ==
    Ordering /\ Ended =>
        /\ IsPermutation(Out, src)
        /\ InOrder(itOp, Out)
        /\ itPre = itOp => InOrder(itOp, Upstream) /\ IsPermutation(Out, Upstream)

\* an ordered sequence ordered again, by a comparison with equivalent items
C27_Witness ==
    /\ Ordering /\ Ended /\ itOp = "OrderP" /\ itPre = "OrderP"
    /\ src = <<3, 1, 2>> /\ Len(Out) = 3 /\ Out[1] = 1

\* ------------------------------------------------------------------------
\* C28 (as claimed): an iteration of S.Union(args...) delivers what an
\* iteration of S.Concat(args...).Distinct() delivers, for every list of
\* arguments: always a first part of it, and all of it when Next returns
\* false.
C28_UnionIsConcatDistinct ==
    Reading("Union") =>
        /\ IsPrefix(Out, DistinctSlice(ConcatSlice(src, itArgs)))
        /\ Ended => Out = DistinctSlice(ConcatSlice(src, itArgs))

\* ------------------------------------------------------------------------
GroupsBuilt == op = "iter" /\ itPC = "built" /\ itOp \in Grouping
Keys(s) == {keySelector(s[i]) : i \in DOMAIN s}
\* the items of s with key k in the order of s, each as the group holds
\* it: itself for GroupBy, its selected value for GroupByKV
WithKey(s, k) == SelectSeq(s, LAMBDA x : keySelector(x) = k)
Group(s, k) ==
    [i \in 1..Len(WithKey(s, k)) |->
        IF itOp = "GroupByKV" THEN valueSelector(WithKey(s, k)[i])
        ELSE WithKey(s, k)[i]]

\* C29: GroupBy and GroupByKV divide the source by key: there is a group
\* for each key that occurs and for no other; the group of a key holds the
\* items with that key (their selected values for GroupByKV), all of them,
\* only them, as often and in the order the source holds them; and an
\* iteration of the result delivers each key's pair once, in any order, all
\* of them when Next returns false.
C29_GroupByPartitions ==
    GroupsBuilt =>
        /\ DOMAIN itGroups = Keys(src)
        /\ \A k \in Keys(src) : itGroups[k] = Group(src, k)
        /\ \A n \in Iterators : itIts[n].live =>
             /\ Image(itIts[n].out) \subseteq Keys(src)
             /\ \A i, j \in DOMAIN itIts[n].out :
                    i # j => itIts[n].out[i] # itIts[n].out[j]
             /\ itIts[n].falses > 0 => Image(itIts[n].out) = Keys(src)

\* two keys, one of them with two different items, the pairs delivered
\* with the larger key first
C29_Witness ==
    /\ GroupsBuilt /\ itOp = "GroupByKV" /\ src = <<2, 1, 3>>
    /\ itGroups[1] = <<22, 23>> /\ itGroups[0] = <<21>>
    /\ Ended /\ Out = <<1, 0>>

\* ------------------------------------------------------------------------
\* C30: an iteration of L.Merge(R, MergeKeep, nil, both), L and R strictly
\* ascending and both one of MergeKeepLeft and MergeKeepRight, delivers the
\* items of L in their order, each once, and no item that only R holds:
\* always a first part of L, and all of L when Next returns false.
C30_MergeKeepsLeft ==
    (/\ Reading("Merge") /\ Ascending(src) /\ Ascending(itArgs[1])
     /\ itLeft = "MergeKeep" /\ itRight = "nil"
     /\ itBoth \in {"MergeKeepLeft", "MergeKeepRight"}) =>
        /\ IsPrefix(Out, src)
        /\ Ended => Out = src

\* R holds items before, between and after those of L, and two of L
C30_Witness ==
    /\ Reading("Merge") /\ itBoth = "MergeKeepRight" /\ Ended
    /\ itLeft = "MergeKeep" /\ itRight = "nil"
    /\ src = <<1, 2, 3>> /\ itArgs = << <<0, 2, 3, 4>> >> /\ Out = src

\* ------------------------------------------------------------------------
Returned(der) == op = "iter" /\ itPC = "done" /\ itOp = der /\ itRes.called

\* C31: TrySingle on a sequence not iterated before returns the item and no
\* error when the sequence holds one item, the empty error when it holds
\* none and the too-many-items error when it holds more, never panics, and
\* calls Next on the sequence at most twice; Single panics with those
\* errors in the same two cases and returns the item otherwise.
C31_SingleOrError ==
    /\ Returned("TrySingle") =>
         /\ itRes.raised = Nil /\ itErr = Nil /\ itRes.nexts <= 2
         /\ Len(src) = 1 => itRes.item = src[1] /\ itRes.err = Nil
         /\ Len(src) = 0 => itRes.err = emptyError
         /\ Len(src) > 1 => itRes.err = tooManyItemsError
    /\ Returned("Single") =>
         /\ itRes.err = Nil /\ itRes.nexts <= 2
         /\ Len(src) = 1 => itRes.item = src[1] /\ itRes.raised = Nil
         /\ Len(src) = 0 => itRes.raised = emptyError
         /\ Len(src) > 1 => itRes.raised = tooManyItemsError

\* Single on a sequence of two items has panicked
C31_Witness ==
    /\ Returned("Single") /\ Len(src) = 2 /\ itRes.raised = tooManyItemsError
    /\ itRes.nexts = 2

\* ------------------------------------------------------------------------
\* C32: in ParallelSelect with maxThreads > 1 the result channel of one
\* iteration is closed at most once: close(c) is called at most one time,
\* however the consumer's launches interleave with the workers that leave.
C32_ClosedAtMostOnce == Parallel => psCloses <= 1

\* C33: in ParallelSelect with maxThreads > 1 no worker executes c <- item
\* once the channel has been closed.
C33_NoPushAfterClose ==
    [][(op = "select" /\ psMax > 1 /\ PsSend) => ~psClosed]_vars

\* ------------------------------------------------------------------------
\* C34: in ParallelSelect the mutex is held only by a worker inside the
\* pull: it is held exactly while one worker is between m.Lock() and the end
\* of i.Next()/i.Current(), never by a worker that runs the selector, pushes
\* or leaves, whether the pull returned an item, found the source exhausted
\* or panicked; so a worker waiting for the mutex can always go on once the
\* pull in progress ends.
C34_MutexOnlyDuringPull ==
    op = "select" =>
        /\ psM <=> CountSt(psG, "next") = 1
        /\ CountSt(psG, "next") <= 1
        /\ (CountSt(psG, "new") > 0 /\ ~crashed) => ENABLED (PsLock \/ PsPull)
\* a pull has panicked, and another worker holds the mutex after it
C34_Witness ==
    /\ op = "select" /\ psMax > 1 /\ psEx = AdvancePanic
    /\ psM /\ CountSt(psG, "next") = 1 /\ CountSt(psG, "dec") = 1

\* C35: when the source's Next panics while a ParallelForEach with
\* threads > 1 feeds its workers, the caller gets the panic, and no worker
\* is left waiting forever at the receive: a worker that waits on the empty
\* channel finds it closed.
C35_SourceFailureEndsWorkers ==
    (op = "foreach" /\ feMode = "pool" /\ srcFail # 0 /\ feI >= srcFail) =>
        /\ fePC = "panicked" /\ feRaised = AdvancePanic
        /\ (CountSt(feG, "recv") > 0 /\ feC = <<>>) => feClosed

\* ------------------------------------------------------------------------
\* C36: the top-up at the start of an Advance of ParallelSelect starts at
\* most 8 workers, and never more than the slack it computed, maxThreads
\* minus the thread count it read minus the length of the channel, read in
\* that order; the thread count grows by the number of workers started.
C36_TopUpBounded ==
    [][(op = "select" /\ PsTopUp) =>
          LET launched == PsLive' - PsLive
              slack == psMax - psT - Len(psC)
          IN  /\ launched <= MaxBurst
              /\ launched <= (IF slack > 0 THEN slack ELSE 0)
              /\ psThreads' - psThreads = launched]_vars
\* the first top-up has started 8 workers where 10 were allowed
C36_Witness ==
    /\ op = "select" /\ psPC = "select" /\ psMax > MaxBurst
    /\ psThreads = MaxBurst /\ CountSt(psG, "new") = MaxBurst

\* ------------------------------------------------------------------------
\* Merge read by iterator 1: the items of each side handed to a handler so
\* far are those before its head, or all of them once the side is exhausted
LeftUsed ==
    IF itIts[1].ln THEN SubSeq(Upstream, 1, itUps[1] - 1) ELSE Upstream
RightUsed ==
    IF itIts[1].rn THEN SubSeq(itArgs[1], 1, itIts[1].ii - 1) ELSE itArgs[1]
Used == Image(LeftUsed) \cup Image(RightUsed)
\* the handler that gets the value v keeps it
Emits(v) ==
    IF v \in Image(Upstream) /\ v \in Image(itArgs[1])
      THEN itBoth \in {"MergeKeepLeft", "MergeKeepRight"}
    ELSE IF v \in Image(Upstream) THEN itLeft = "MergeKeep"
    ELSE itRight = "MergeKeep"
RECURSIVE InOrderOf(_)
InOrderOf(S) ==
    IF S = {} THEN <<>>
    ELSE LET m == CHOOSE x \in S : \A y \in S : x <= y
         IN  <<m>> \o InOrderOf(S \ {m})
\* nothing is left that Merge would hand to a handler
AtEnd ==
    \/ ~itIts[1].ln /\ ~itIts[1].rn
    \/ itIts[1].ln /\ ~itIts[1].rn /\ itLeft = "nil"
    \/ ~itIts[1].ln /\ itIts[1].rn /\ itRight = "nil"

\* C37: on two ascending sequences Merge hands every item to a handler
\* once, the smaller head first and equal heads together, so the items
\* delivered are the values consumed so far that their handler keeps, in
\* ascending order; a nil or declining handler delivers nothing, and no
\* value beyond the item just delivered has been consumed; Next returns
\* false only when both sides are exhausted or one is exhausted and the
\* other has a nil 'only' handler, and in that situation always.
C37_MergeSteps ==
    /\ [](Reading("Merge") =>
            /\ Out = InOrderOf({v \in Used : Emits(v)})
            /\ (itIts[1].valid /\ Out # <<>>) =>
                   \A v \in Used : v <= Out[Len(Out)]
            /\ Ended => AtEnd)
    /\ [][(Reading("Merge") /\ AtEnd /\ ItNext(1)) =>
             (itIts'[1].falses = itIts[1].falses + 1 /\ itIts'[1].out = Out
              /\ itUps'[1] = itUps[1] /\ itIts'[1].ii = itIts[1].ii)]_vars
\* 0 went to the nil right handler, 1 was declined, 2 and 3 were kept, and
\* the iteration ended with 4 unread on the right
C37_Witness ==
    /\ Reading("Merge") /\ Ended
    /\ itLeft = "decline" /\ itRight = "nil" /\ itBoth = "MergeKeepLeft"
    /\ src = <<1, 2, 3>> /\ itArgs = << <<0, 2, 3, 4>> >>
    /\ Out = <<2, 3>> /\ itIts[1].rn /\ itIts[1].ii = 4

\* ------------------------------------------------------------------------
\* the items of s that occur in none of the arguments, in the order and
\* number they have in s
Remaining(s) ==
    SelectSeq(s, LAMBDA x : \A i \in DOMAIN itArgs : x \notin Image(itArgs[i]))
Excepting == op = "iter" /\ itPC = "built" /\ itOp = "Except"

\* C38: every iteration of a sequence Except returned delivers, in the
\* receiver's order and with their repetitions, the receiver's items that
\* occur in none of the arguments; the arguments are read once for each
\* sequence Except returned, by the first Advance made on any of its
\* iterators, and not again by the later iterators of that sequence.
C38_ExceptKeepsOthers ==
    Excepting =>
        /\ \A k \in Iterators :
             /\ itIts[k].live => IsPrefix(itIts[k].out, Remaining(src))
             /\ itIts[k].live /\ itIts[k].falses > 0 =>
                    itIts[k].out = Remaining(src)
        /\ itArgs # <<>> =>
             \A v \in Values :
                 itBuf[v].drains = (IF Advanced(v) = {} THEN 0 ELSE 1)
\* two iterators of one sequence Except(<<1>>, <<3, 1>>) returned have
\* both delivered the 2s of the receiver
C38_Witness ==
    /\ Excepting /\ src = <<2, 1, 2>> /\ itArgs = << <<1>>, <<3, 1>> >>
    /\ itIts[1].val = itIts[2].val
    /\ \A k \in Iterators :
         itIts[k].live /\ itIts[k].falses > 0 /\ itIts[k].out = <<2, 2>>
    /\ Drains = 1

\* ------------------------------------------------------------------------
\* the first min(n, |s|) items of s, and the items after them
TakeSlice(s, n) == SubSeq(s, 1, Min(n, Len(s)))
SkipSlice(s, n) == SubSeq(s, Min(n, Len(s)) + 1, Len(s))
Cutting(der, k) ==
    op = "iter" /\ itPC = "built" /\ itOp = der /\ itIts[k].live

\* C39: an iteration of Take(n) delivers the first min(n, |S|) items of S
\* and an iteration of Skip(n) the max(|S| - n, 0) items after them, each in
\* the order of S, so the items of Take(n) followed by the items of Skip(n)
\* are the items of S.
C39_TakeThenSkip ==
    \A k \in Iterators :
        /\ Cutting("Take", k) =>
             /\ IsPrefix(itIts[k].out, TakeSlice(src, itN))
             /\ itIts[k].falses > 0 =>
                  /\ itIts[k].out = TakeSlice(src, itN)
                  /\ Len(itIts[k].out) = Min(itN, Len(src))
                  /\ itIts[k].out \o SkipSlice(src, itN) = src
        /\ Cutting("Skip", k) =>
             /\ IsPrefix(itIts[k].out, SkipSlice(src, itN))
             /\ itIts[k].falses > 0 =>
                  /\ itIts[k].out = SkipSlice(src, itN)
                  /\ Len(itIts[k].out) = Len(src) - Min(itN, Len(src))
                  /\ TakeSlice(src, itN) \o itIts[k].out = src
\* Skip(1) of a source of three items has delivered the last two
C39_Witness ==
    /\ Cutting("Skip", 1) /\ itN = 1 /\ src = <<1, 2, 1>>
    /\ itIts[1].falses > 0 /\ itIts[1].out = <<2, 1>>

\* C40: an iterator of Take(n) makes at most n successful advances of its
\* upstream iterator, and once it has delivered n items it does not call
\* Next on the upstream again, however often its own Next is called.
C40_TakeStopsPulling ==
    \A k \in Iterators :
        Cutting("Take", k) =>
            /\ itUps[k] <= itN
            /\ itUps[k] = Len(itIts[k].out)
            /\ Len(itIts[k].out) = itN => itIts[k].ups = itN
\* Take(2) of three items has delivered two and was asked again, twice
C40_Witness ==
    /\ Cutting("Take", 1) /\ itN = 2 /\ Len(src) = 3
    /\ Len(itIts[1].out) = 2 /\ itIts[1].falses = MaxExtra + 1
    /\ itIts[1].ups = 2 /\ itUps[1] = 2

====
